---------------------------- MODULE Spec2Model ----------------------------
(***************************************************************************)
(* A model of the LVAE training core of CAREamics: the loss engine         *)
(* (losses/lvae/losses.py), the free-bits, pad/crop and stable-exponential *)
(* utilities (models/lvae/utils.py), the validators of VAEAlgorithmConfig  *)
(* (config/vae_algorithm_model.py) and the prediction utilities            *)
(* (prediction_utils/lvae_prediction.py); and of the components around it: *)
(* the data configuration (config/data/data_model.py), the prediction      *)
(* writer callback, get_logger, InMemoryDataset.split_dataset and the      *)
(* constructors of the two data modules.                                   *)
(*                                                                         *)
(* Tensors of floats are functions over index ranges whose entries are     *)
(* extended rationals: an exact fraction, NaN, +infinity or -infinity,     *)
(* combined with the IEEE-754 rules torch applies (NaN is absorbing,       *)
(* inf - inf = NaN, 0 * inf = NaN, x / 0 = +-inf, 0 / 0 = NaN).  Rounding  *)
(* is not modelled.                                                        *)
(***************************************************************************)
EXTENDS Integers, Sequences, FiniteSets, TLC

(***************************************************************************)
(* Bounds of the model.                                                    *)
(***************************************************************************)
MaxBatch == 2
MaxLayers == 2
MaxCh == 2
MaxEpoch == 3
MaxMmse == 3
MaxAux == 2
MaxSide == 2
MaxElems == 2

(***************************************************************************)
(* Extended rationals.                                                     *)
(***************************************************************************)
Abs(i) == IF i < 0 THEN -i ELSE i

Sign(i) == IF i < 0 THEN -1 ELSE IF i > 0 THEN 1 ELSE 0

RECURSIVE GCD(_, _)
GCD(a, b) == IF b = 0 THEN a ELSE GCD(b, a % b)

LCM(a, b) == (a \div GCD(a, b)) * b

NaN == [t |-> "nan", n |-> 0, d |-> 1]

PInf == [t |-> "inf", n |-> 1, d |-> 1]

NInf == [t |-> "inf", n |-> -1, d |-> 1]

\* the fraction n/d (d # 0) in lowest terms with a positive denominator
Frac(n, d) ==
    LET g == GCD(Abs(n), Abs(d))
        s == IF d < 0 THEN -1 ELSE 1
    IN  [t |-> "fin", n |-> (s * n) \div g, d |-> Abs(d) \div g]

Fin(i) == Frac(i, 1)

InfOf(s) == IF s < 0 THEN NInf ELSE PInf

IsNan(x) == x.t = "nan"

IsInf(x) == x.t = "inf"

IsFinite(x) == x.t = "fin"

FNeg(x) ==
    CASE x.t = "nan" -> NaN
      [] x.t = "inf" -> InfOf(-x.n)
      [] OTHER -> Frac(-x.n, x.d)

FAdd(x, y) ==
    CASE IsNan(x) \/ IsNan(y) -> NaN
      [] IsInf(x) /\ IsInf(y) -> IF x.n = y.n THEN x ELSE NaN
      [] IsInf(x) -> x
      [] IsInf(y) -> y
      [] OTHER -> LET m == LCM(x.d, y.d)
                  IN  Frac(x.n * (m \div x.d) + y.n * (m \div y.d), m)

\* exact product of two fractions, reduced crosswise before multiplying
FracMul(xn, xd, yn, yd) ==
    LET g == GCD(Abs(xn), Abs(yd))
        h == GCD(Abs(yn), Abs(xd))
    IN  Frac((xn \div g) * (yn \div h), (xd \div h) * (yd \div g))

FMul(x, y) ==
    CASE IsNan(x) \/ IsNan(y) -> NaN
      [] IsInf(x) \/ IsInf(y) ->
            IF x.n = 0 \/ y.n = 0 THEN NaN ELSE InfOf(Sign(x.n) * Sign(y.n))
      [] OTHER -> FracMul(x.n, x.d, y.n, y.d)

FDiv(x, y) ==
    CASE IsNan(x) \/ IsNan(y) -> NaN
      [] IsInf(x) /\ IsInf(y) -> NaN
      [] IsInf(x) -> InfOf(x.n * (IF y.n < 0 THEN -1 ELSE 1))
      [] IsInf(y) -> Fin(0)
      [] y.n = 0 -> IF x.n = 0 THEN NaN ELSE InfOf(x.n)
      [] OTHER -> FracMul(x.n, x.d, Sign(y.n) * y.d, Abs(y.n))

\* x <= y on floats: false as soon as one side is NaN
FLe(x, y) ==
    CASE IsNan(x) \/ IsNan(y) -> FALSE
      [] IsInf(x) -> x.n < 0 \/ x = y
      [] IsInf(y) -> y.n > 0
      [] OTHER -> LET m == LCM(x.d, y.d)
                  IN  x.n * (m \div x.d) <= y.n * (m \div y.d)

FLt(x, y) == FLe(x, y) /\ x # y

\* torch.clamp(x, min=m): NaN stays NaN
FClampMin(x, m) ==
    IF IsNan(x) THEN NaN ELSE IF FLe(m, x) THEN x ELSE m

\* sum of the entries f[i], i in 1..n, in index order (0 for n = 0)
RECURSIVE FSumTo(_, _)
FSumTo(f, n) == IF n = 0 THEN Fin(0) ELSE FAdd(FSumTo(f, n - 1), f[n])

FSum(f) == FSumTo(f, Len(f))

FMean(f) == FDiv(FSum(f), Fin(Len(f)))


RECURSIVE Prod(_)
\* np.prod of a shape (a sequence of positive integers)
Prod(shape) == IF shape = << >> THEN 1 ELSE Head(shape) * Prod(Tail(shape))

(***************************************************************************)
(* State.                                                                  *)
(*   pc      which component is exercised and whether its call returned    *)
(*   ll      the log-likelihood the likelihood object returns for the      *)
(*           batch; ll[b][c] is the mean over the spatial dimensions of    *)
(*           sample b, channel c (only spatial means are ever taken of it) *)
(*   llG     the same for the Gaussian likelihood of the combined loss     *)
(*   td      top-down layer data: td.kl[l][b] the KL value of sample b at  *)
(*           layer l, td.zshape[l] the shape of layer l's latent without   *)
(*           its batch dimension                                           *)
(*   img     targets.shape[2:], the spatial shape of the target            *)
(*   lp      the loss parameters                                           *)
(*   fb      the arguments of a direct free_bits_kl call                   *)
(*   out     what the last call returned                                   *)
(*   cfg     the fields handed to VAEAlgorithmConfig                       *)
(*   res     the outcome of the last validation of cfg                     *)
(*   model   the LVAE handed to the prediction utilities: its train/eval   *)
(*           mode and the outputs of the forward passes made so far        *)
(*   call    the arguments and locals of the running prediction call       *)
(*   arg     the tensor argument of a tensor utility                       *)
(***************************************************************************)
VARIABLES pc, ll, llG, td, img, lp, fb, out, cfg, res, model, call, arg

vars == <<pc, ll, llG, td, img, lp, fb, out, cfg, res, model, call, arg>>

(***************************************************************************)
(* models/lvae/utils.py                                                    *)
(***************************************************************************)
\* free_bits_kl's default tolerance eps = 1e-6
Eps == Frac(1, 1000000)

\* free_bits_kl with the two clamping modes exchanged
FreeBitsKlSwapped(kl, free_bits, batch_average, eps) ==
    IF FLt(free_bits, eps)
    THEN [l \in DOMAIN kl |-> FMean(kl[l])]
    ELSE IF ~batch_average
         THEN [l \in DOMAIN kl |-> FClampMin(FMean(kl[l]), free_bits)]
         ELSE [l \in DOMAIN kl |->
                  FMean([b \in DOMAIN kl[l] |-> FClampMin(kl[l][b], free_bits)])]

\* free_bits_kl: kl[l][b] is entry (b, l) of the (batch, layers) tensor; the
\* result has one entry per layer
free_bits_kl(kl, free_bits, batch_average, eps) ==
    IF FLt(free_bits, eps)
    THEN [l \in DOMAIN kl |-> FMean(kl[l])]
    ELSE IF batch_average
         THEN [l \in DOMAIN kl |-> FClampMin(FMean(kl[l]), free_bits)]
         ELSE [l \in DOMAIN kl |->
                  FMean([b \in DOMAIN kl[l] |-> FClampMin(kl[l][b], free_bits)])]

\* An image tensor is its spatial shape ([Z], Y, X) and its entries, one
\* per spatial position (the batch and channel dimensions are never padded
\* or cropped).  Targets of a pad or crop go up to MaxTarget a side.
MaxTarget == MaxSide + 2

Coords(shape) ==
    {c \in [1..Len(shape) -> 1..MaxTarget] : \A i \in 1..Len(shape) : c[i] <= shape[i]}

\* nn.functional.pad(x, padding): zeros before and after along each dimension
Pad(t, before, after) ==
    LET n == Len(t.shape)
        shape == [i \in 1..n |-> before[i] + t.shape[i] + after[i]]
    IN  [shape |-> shape,
         data |-> [c \in Coords(shape) |->
                      IF \A i \in 1..n :
                            before[i] < c[i] /\ c[i] <= before[i] + t.shape[i]
                      THEN t.data[[i \in 1..n |-> c[i] - before[i]]]
                      ELSE 0]]

\* x[:, :, start[0]:stop[0], ...]
Slice(t, start, stop) ==
    LET n == Len(t.shape)
        shape == [i \in 1..n |->
                     IF stop[i] > start[i] THEN stop[i] - start[i] ELSE 0]
    IN  [shape |-> shape,
         data |-> [c \in Coords(shape) |->
                      t.data[[i \in 1..n |-> c[i] + start[i]]]]]

\* the rejection test with all() for any()
CondAll(mode, x_size, size) ==
    IF mode = "pad"
    THEN \A i \in 1..Len(size) : x_size[i] > size[i]
    ELSE \A i \in 1..Len(size) : x_size[i] < size[i]

\* `cond`, the test that rejects a pad to a smaller or a crop to a larger size
Cond(mode, x_size, size) ==
    IF mode = "pad"
    THEN \E i \in 1..Len(size) : x_size[i] > size[i]
    ELSE \E i \in 1..Len(size) : x_size[i] < size[i]

\* the larger half of each difference
D1Ceil(diffs) == [i \in DOMAIN diffs |-> diffs[i] - (diffs[i] \div 2)]

\* d1 = [d // 2 for d in diffs]
D1(diffs) == [i \in DOMAIN diffs |-> diffs[i] \div 2]

\* d2 = [d - (d // 2) for d in diffs]
D2(diffs) == [i \in DOMAIN diffs |-> diffs[i] - (diffs[i] \div 2)]

\* _pad_crop_img: the tensor, or the exception raised
pad_crop_img(t, size, mode) ==
    IF Len(t.shape) # Len(size) THEN [status |-> "AssertionError"]
    ELSE IF Cond(mode, t.shape, size) THEN [status |-> "ValueError"]
    ELSE LET diffs == [i \in 1..Len(size) |-> Abs(t.shape[i] - size[i])]
             d1 == D1(diffs)
             d2 == D2(diffs)
         IN  IF mode = "pad"
             THEN [status |-> "ok", tensor |-> Pad(t, d1, d2)]
             ELSE [status |-> "ok",
                   tensor |-> Slice(t, d1, [i \in 1..Len(size) |->
                                                t.shape[i] - d2[i]])]

pad_img_tensor(t, size) == pad_crop_img(t, size, "pad")

crop_img_tensor(t, size) == pad_crop_img(t, size, "crop")

(***************************************************************************)
(* StableExponential and StableLogVar (models/lvae/utils.py).              *)
(*                                                                         *)
(* exp and log are kept exact by a symbolic value: besides the fractions,  *)
(* [t |-> "ln", n, d] is ln(n/d) for a fraction n/d > 0 other than 1, and  *)
(* [t |-> "exp", n, d] is e^(n/d) for a fraction other than 0.  A          *)
(* log-variance is a positive fraction, 0, or the logarithm of a fraction. *)
(***************************************************************************)
Ln(q) == IF q = Fin(1) THEN Fin(0) ELSE [t |-> "ln", n |-> q.n, d |-> q.d]

\* a sum or product this representation cannot hold
Unrepresentable == [t |-> "unrepresentable", n |-> 0, d |-> 1]

\* torch.exp
TorchExp(v) ==
    CASE v.t = "ln" -> Frac(v.n, v.d)
      [] v.t = "fin" -> IF v.n = 0 THEN Fin(1) ELSE [t |-> "exp", n |-> v.n, d |-> v.d]
      [] OTHER -> Unrepresentable

\* torch.log
TorchLog(v) ==
    CASE v.t = "exp" -> Frac(v.n, v.d)
      [] v.t = "fin" -> IF v.n > 0 THEN Ln(v) ELSE IF v.n = 0 THEN NInf ELSE NaN
      [] OTHER -> Unrepresentable

\* tensor > 0, on one element
Positive(v) ==
    CASE v.t = "fin" -> v.n > 0
      [] v.t = "ln" -> v.n > v.d
      [] OTHER -> FALSE

\* a + b where at most one of the two is not a fraction
RAdd(a, b) ==
    IF a.t = "fin" /\ b.t = "fin" THEN FAdd(a, b)
    ELSE IF a = Fin(0) THEN b
    ELSE IF b = Fin(0) THEN a
    ELSE Unrepresentable

\* v * f for an element f of a boolean filter
Times(v, f) == IF f THEN v ELSE Fin(0)

\* posneg_separation, on one element
posneg_separation(v) ==
    [pos_f |-> Positive(v),
     neg_f |-> ~Positive(v),
     pos_data |-> IF Positive(v) THEN v ELSE Fin(0),
     neg_data |-> IF Positive(v) THEN Fin(0) ELSE v]

\* StableExponential(tensor).exp(), on one element
StableExponential_exp(v) ==
    LET s == posneg_separation(v)
    IN  RAdd(Times(TorchExp(s.neg_data), s.neg_f),
             Times(RAdd(Fin(1), s.pos_data), s.pos_f))

\* StableExponential(tensor).log(), on one element
StableExponential_log(v) ==
    LET s == posneg_separation(v)
    IN  RAdd(Times(s.neg_data, s.neg_f),
             Times(TorchLog(RAdd(Fin(1), s.pos_data)), s.pos_f))

\* StableLogVar's default var_eps = 1e-6
VarEps == Frac(1, 1000000)

\* get_var without the floor var_eps
GetVarNoEps(lv, enable_stable, eps) ==
    IF ~enable_stable THEN TorchExp(lv) ELSE StableExponential_exp(lv)

\* StableLogVar(logvar, enable_stable, var_eps).get_var(), on one element
StableLogVar_get_var(lv, enable_stable, eps) ==
    IF ~enable_stable THEN TorchExp(lv)
    ELSE RAdd(StableExponential_exp(lv), eps)

\* StableLogVar(logvar, enable_stable, var_eps).get(), on one element
StableLogVar_get(lv, enable_stable, eps) ==
    IF ~enable_stable THEN lv
    ELSE TorchLog(StableLogVar_get_var(lv, enable_stable, eps))

(***************************************************************************)
(* losses/lvae/losses.py                                                   *)
(***************************************************************************)
Scalar(v) == [kind |-> "scalar", v |-> v]

Vector(v) == [kind |-> "vector", v |-> v]

NChannels(l) == Len(l[1])

\* compute_batch_mean(-1 * ll): the mean over the channels of each sample
BatchMeanNeg(l) ==
    [b \in DOMAIN l |-> FMean([c \in DOMAIN l[b] |-> FNeg(l[b][c])])]

\* _get_reconstruction_loss_vector: "loss" and the "ch{i}_loss" keys, each
\* of shape (B,); a single-channel target gets ch1_loss and ch2_loss, both
\* the aggregate vector
get_reconstruction_loss_vector(l) ==
    LET loss == BatchMeanNeg(l)
    IN  [loss |-> Vector(loss),
         ch |-> IF NChannels(l) > 1
                THEN [i \in 1..NChannels(l) |->
                         Vector([b \in DOMAIN l |-> FNeg(l[b][i])])]
                ELSE [i \in 1..2 |-> Vector(loss)]]

RECURSIVE MaskedSumTo(_, _, _)
\* v[mask].sum(): the sum of the entries the mask keeps, among the first n
MaskedSumTo(v, mask, n) ==
    IF n = 0 THEN Fin(0)
    ELSE IF mask[n] THEN FAdd(MaskedSumTo(v, mask, n - 1), v[n])
         ELSE MaskedSumTo(v, mask, n - 1)

RECURSIVE CountTo(_, _)
CountTo(mask, n) ==
    IF n = 0 THEN 0 ELSE CountTo(mask, n - 1) + (IF mask[n] THEN 1 ELSE 0)

\* the reduction with the sum divided by the number of kept samples
ReduceMaskedByKept(v, mask) ==
    FDiv(MaskedSumTo(v, mask, Len(v)), Fin(CountTo(mask, Len(v))))

\* v[splitting_mask].sum() / len(reconstruction)
ReduceMasked(v, mask) == FDiv(MaskedSumTo(v, mask, Len(v)), Fin(Len(v)))

NoMask == [given |-> FALSE, keep |-> << >>]

\* splitting_mask, or torch.ones_like(loss).bool() when it is None
EffectiveMask(mask, B) ==
    IF mask.given THEN mask.keep ELSE [b \in 1..B |-> TRUE]

\* get_reconstruction_loss: "loss" and ch1..ch{C} are reduced; any other key
\* of the vector dictionary is returned as it is
get_reconstruction_loss(l, mask) ==
    LET vec == get_reconstruction_loss_vector(l)
        m == EffectiveMask(mask, Len(l))
    IN  [loss |-> Scalar(ReduceMasked(vec.loss.v, m)),
         ch |-> [i \in DOMAIN vec.ch |->
                    IF i <= NChannels(l)
                    THEN Scalar(ReduceMasked(vec.ch[i].v, m))
                    ELSE vec.ch[i]]]

\* the (B, n_layers) tensor torch.cat builds from the per-layer KL values
KlTensor(t) == t.kl

\* the usplit KL with the free-bits threshold of the denoisplit KL
KlUsplitClamped(t) ==
    LET kl == [l \in DOMAIN t.kl |->
                  [b \in DOMAIN t.kl[l] |->
                      FDiv(t.kl[l][b], Fin(Prod(t.zshape[l])))]]
    IN  FMean(free_bits_kl(kl, Fin(1), FALSE, Eps))

get_kl_divergence_loss_usplit(t) ==
    LET kl == [l \in DOMAIN t.kl |->
                  [b \in DOMAIN t.kl[l] |->
                      FDiv(t.kl[l][b], Fin(Prod(t.zshape[l])))]]
    IN  FMean(free_bits_kl(kl, Fin(0), FALSE, Eps))

\* the denoisplit KL averaged over the layers, as the usplit KL is
KlDenoisplitLayerMean(t, img_shape) ==
    FDiv(FMean(free_bits_kl(KlTensor(t), Fin(1), FALSE, Eps)),
         Fin(Prod(img_shape)))

get_kl_divergence_loss_denoisplit(t, img_shape) ==
    FDiv(FSum(free_bits_kl(KlTensor(t), Fin(1), FALSE, Eps)),
         Fin(Prod(img_shape)))

\* get_kl_weight (losses/lvae/loss_utils.py): the configured weight, or with
\* annealing a linear ramp from 0 at epoch `start` to the configured weight
\* at epoch `start + annealtime`
get_kl_weight(kl_annealing, kl_start, kl_annealtime, kl_weight, current_epoch) ==
    IF ~kl_annealing THEN kl_weight
    ELSE IF current_epoch < kl_start THEN Fin(0)
    ELSE IF current_epoch >= kl_start + kl_annealtime THEN kl_weight
    ELSE FMul(kl_weight, Frac(current_epoch - kl_start, kl_annealtime))

\* -1 * likelihood(...)[0].mean(): the mean over all the entries, negated
NegMeanAll(l) ==
    FNeg(FDiv(FSum([b \in DOMAIN l |-> FSum(l[b])]),
              Fin(Len(l) * NChannels(l))))

\* predictions.chunk(2, dim=1)[0]: the first half of the channels of every
\* sample (the larger half when the count is odd)
ChunkFirst(predictions) ==
    [b \in DOMAIN predictions |->
        SubSeq(predictions[b], 1, (Len(predictions[b]) + 1) \div 2)]

\* the noise-model likelihood handed the full prediction in every case
OutMeanNoChunk(predictions, target_channels) == predictions

\* out_mean: what the noise-model likelihood is handed
OutMean(predictions, target_channels) ==
    IF Len(predictions[1]) = 2 * target_channels
    THEN ChunkFirst(predictions)
    ELSE predictions

\* reconstruction_loss_musplit_denoisplit, from the log-likelihoods the
\* noise-model likelihood (lnm) and the Gaussian likelihood (lgm) return
reconstruction_loss_musplit_denoisplit(lnm, lgm, nm_weight, gaussian_weight) ==
    FAdd(FMul(nm_weight, NegMeanAll(lnm)), FMul(gaussian_weight, NegMeanAll(lgm)))

\* the reconstruction term passed on as it is, NaN included
NoNanToZero(x) == x

\* `if torch.isnan(recons_loss).any(): recons_loss = 0.0`
NanToZero(x) == IF IsNan(x) THEN Fin(0) ELSE x

\* the guard of `return None`, with isfinite for isnan
IsNotFinite(x) == ~IsFinite(x)

\* `torch.isnan(net_loss).any()`, the guard of `return None`
SkipStep(net_loss) == IsNan(net_loss)

\* a local the taken branch never assigned
Unbound == [t |-> "unbound", n |-> 0, d |-> 1]

\* the tail all three composite losses share: the output dictionary, or None
\* for a NaN total.  `locals` keeps the function's locals at the return:
\* raw (the reconstruction term before the NaN replacement), recons_loss,
\* kl_weight (the weight kl_loss was multiplied by), kl_loss and net_loss
LossOutput(fn, raw, recons_loss, kl_weight, kl_loss) ==
    LET net_loss == FAdd(recons_loss, kl_loss)
        locals == [raw |-> raw, recons_loss |-> recons_loss,
                   kl_weight |-> kl_weight,
                   kl_loss |-> kl_loss, net_loss |-> net_loss]
    IN  IF SkipStep(net_loss)
        THEN [fn |-> fn, ret |-> "None", locals |-> locals]
        ELSE [fn |-> fn, ret |-> "dict", locals |-> locals,
              loss |-> net_loss,
              reconstruction_loss |-> recons_loss,
              kl_loss |-> kl_loss]

\* musplit_loss with the configured weight at every epoch
MusplitLossNoAnnealing(l, t, p) ==
    LET raw == FMul(get_reconstruction_loss(l, p.mask).loss.v,
                    p.reconstruction_weight)
        kl_loss == FMul(p.kl_weight, get_kl_divergence_loss_usplit(t))
    IN  LossOutput("musplit_loss", raw, NanToZero(raw), p.kl_weight, kl_loss)

musplit_loss(l, t, p) ==
    LET raw == FMul(get_reconstruction_loss(l, p.mask).loss.v,
                    p.reconstruction_weight)
        kl_weight == get_kl_weight(p.kl_annealing, p.kl_start, p.kl_annealtime,
                                   p.kl_weight, p.current_epoch)
        kl_loss == FMul(kl_weight, get_kl_divergence_loss_usplit(t))
    IN  LossOutput("musplit_loss", raw, NanToZero(raw), kl_weight, kl_loss)

denoisplit_loss(l, t, img_shape, p) ==
    LET raw == FMul(get_reconstruction_loss(l, p.mask).loss.v,
                    p.reconstruction_weight)
        kl_weight == get_kl_weight(p.kl_annealing, p.kl_start, p.kl_annealtime,
                                   p.kl_weight, p.current_epoch)
        kl_loss == IF p.non_stochastic THEN Fin(0)
                   ELSE FMul(kl_weight,
                             get_kl_divergence_loss_denoisplit(t, img_shape))
    IN  LossOutput("denoisplit_loss", raw, NanToZero(raw),
                   IF p.non_stochastic THEN Unbound ELSE kl_weight, kl_loss)

\* the combined loss with the annealed weight of the other two losses
DenoisplitMusplitLossAnnealed(lnm, lgm, t, img_shape, p) ==
    LET raw == reconstruction_loss_musplit_denoisplit(
                   lnm, lgm, p.denoisplit_weight, p.musplit_weight)
        denoisplit_kl == get_kl_divergence_loss_denoisplit(t, img_shape)
        musplit_kl == get_kl_divergence_loss_usplit(t)
        kl_weight == get_kl_weight(p.kl_annealing, p.kl_start, p.kl_annealtime,
                                   p.kl_weight, p.current_epoch)
        kl_loss == IF p.non_stochastic THEN Fin(0)
                   ELSE FMul(kl_weight,
                             FAdd(FMul(p.denoisplit_weight, denoisplit_kl),
                                  FMul(p.musplit_weight, musplit_kl)))
    IN  LossOutput("denoisplit_musplit_loss", raw, NanToZero(raw),
                   IF p.non_stochastic THEN Unbound ELSE kl_weight, kl_loss)

denoisplit_musplit_loss(lnm, lgm, t, img_shape, p) ==
    LET raw == reconstruction_loss_musplit_denoisplit(
                   lnm, lgm, p.denoisplit_weight, p.musplit_weight)
        denoisplit_kl == get_kl_divergence_loss_denoisplit(t, img_shape)
        musplit_kl == get_kl_divergence_loss_usplit(t)
        kl_loss == IF p.non_stochastic THEN Fin(0)
                   ELSE FMul(p.kl_weight,
                             FAdd(FMul(p.denoisplit_weight, denoisplit_kl),
                                  FMul(p.musplit_weight, musplit_kl)))
    IN  LossOutput("denoisplit_musplit_loss", raw, NanToZero(raw),
                   IF p.non_stochastic THEN Unbound ELSE p.kl_weight, kl_loss)

(***************************************************************************)
(* config/vae_algorithm_model.py                                           *)
(*                                                                         *)
(* A configuration is the record of the fields the validators read:        *)
(*   algorithm, loss           the two literals                            *)
(*   output_channels           model.output_channels                       *)
(*   predict_logvar            model.predict_logvar                        *)
(*   noise_model               given: whether noise_model is not None;     *)
(*                             n: len(noise_model.noise_models)            *)
(*   nm_likelihood             noise_model_likelihood_model: None or set   *)
(*   gaussian_predict_logvar   gaussian_likelihood_model.predict_logvar,   *)
(*                             or NoGaussian when the model is None        *)
(* A validator yields "ok" or the exception it raises.                     *)
(***************************************************************************)
None == "None"

NoGaussian == "no gaussian_likelihood_model"

\* no configuration object, and no validation so far
NoConfig == [constructed |-> FALSE]

NoResult == [status |-> "none"]

algorithm_cross_validation(c) ==
    IF c.algorithm = "musplit" /\ c.loss # "musplit" THEN "ValueError"
    ELSE IF c.algorithm = "denoisplit"
            /\ c.loss \in {"denoisplit", "denoisplit_musplit"}
         THEN "ValueError"
    ELSE IF c.algorithm = "denoisplit" /\ c.loss = "denoisplit"
            /\ c.predict_logvar # None
         THEN "ValueError"
    ELSE "ok"

\* the validator with its assertion dropped
OutputChannelsNoCheck(c) ==
    IF ~c.noise_model.given THEN "AttributeError" ELSE "ok"

\* len(self.noise_model.noise_models) fails on a None noise_model
output_channels_validation(c) ==
    IF ~c.noise_model.given THEN "AttributeError"
    ELSE IF c.output_channels # c.noise_model.n THEN "AssertionError"
    ELSE "ok"

\* `assert (condition, message)` asserts a non-empty tuple, which is always
\* true; building the tuple still reads gaussian_likelihood_model.predict_logvar
predict_logvar_validation(c) ==
    IF c.gaussian_predict_logvar = NoGaussian THEN "AttributeError" ELSE "ok"

\* pydantic reports a ValueError or AssertionError of a validator as a
\* ValidationError; any other exception leaves the validator as it is
Raised(e) == IF e \in {"ValueError", "AssertionError"} THEN "ValidationError" ELSE e

\* the three `after` validators in their order of definition; the first one
\* that raises ends the validation
Validate(c) ==
    LET a == algorithm_cross_validation(c)
        o == output_channels_validation(c)
        p == predict_logvar_validation(c)
    IN  IF a # "ok"
        THEN [input |-> c, status |-> Raised(a), by |-> "algorithm_cross_validation"]
        ELSE IF o # "ok"
        THEN [input |-> c, status |-> Raised(o), by |-> "output_channels_validation"]
        ELSE IF p # "ok"
        THEN [input |-> c, status |-> Raised(p), by |-> "predict_logvar_validation"]
        ELSE [input |-> c, status |-> "ok", by |-> None]

(***************************************************************************)
(* prediction_utils/lvae_prediction.py                                     *)
(*                                                                         *)
(* A prediction is one float (every element of the tensor is treated       *)
(* alike).  An input or a returned value is a container: a bare tensor,    *)
(* or a tuple of items; every item is a record with the fields of a float. *)
(***************************************************************************)
\* the input tensor, and the i-th auxiliary item (such as a TileInformation)
TensorX == [t |-> "x", n |-> 0, d |-> 1]

Aux(i) == [t |-> "aux", n |-> i, d |-> 1]

\* the log-variance of a model whose predict_logvar is None
NoLogVar == [t |-> "None", n |-> 0, d |-> 1]

Bare(v) == [kind |-> "tensor", items |-> <<v>>]

Tuple(items) == [kind |-> "tuple", items |-> items]

\* an input that is neither a tensor nor a tuple, such as a list
OtherInput == [kind |-> "other", items |-> << >>]

\* the isinstance tests and `x, *aux = input` (which raises ValueError on an
\* empty tuple): the auxiliary items, or the exception
Unpack(input) ==
    IF input.kind = "tuple"
    THEN IF input.items = << >>
         THEN [status |-> "ValueError", aux |-> << >>]
         ELSE [status |-> "ok", aux |-> Tail(input.items)]
    ELSE IF input.kind = "tensor"
         THEN [status |-> "ok", aux |-> << >>]
         ELSE [status |-> "ValueError", aux |-> << >>]

\* _pure_lvae_predict_single_sample: model.eval(), then one forward pass
\* whose output o the likelihood splits into prediction and log-variance
Forward(m, o) == [m EXCEPT !.training = FALSE, !.calls = Append(@, o)]

\* the return statement both functions end with
ReturnValue(prediction, log_var, aux) ==
    IF Len(aux) = 0
    THEN [prediction |-> Bare(prediction), log_var |-> Bare(log_var)]
    ELSE [prediction |-> Tuple(<<prediction>> \o aux),
          log_var |-> IF log_var # NoLogVar
                      THEN Tuple(<<log_var>> \o aux)
                      ELSE Bare(NoLogVar)]

\* lvae_predict_mmse without its test of mmse_count
MmseEntryNoCountCheck(input, mmse_count) == Unpack(input).status

\* the checks lvae_predict_mmse makes before its loop
MmseEntry(input, mmse_count) ==
    IF Unpack(input).status # "ok" THEN Unpack(input).status
    ELSE IF mmse_count <= 0 THEN "ValueError"
    ELSE "ok"

\* the log-variance of the latest sample, whichever it is
KeepLastLogVar(mmse_idx, log_var, lv) == lv

\* `if mmse_idx == 0: log_var = lv`
KeepFirstLogVar(mmse_idx, log_var, lv) == IF mmse_idx = 0 THEN lv ELSE log_var

\* the mean over a buffer that has one row too many
MeanOfLongerBuffer(sample_predictions) ==
    FDiv(FSum(sample_predictions), Fin(Len(sample_predictions) + 1))

\* torch.mean(sample_predictions, dim=0)
MmsePrediction(sample_predictions) == FMean(sample_predictions)

(***************************************************************************)
(* Inputs.                                                                 *)
(***************************************************************************)
Idle == "-"

\* an (n, m) tensor equal to `base` everywhere but at entry (1, 1)
Tensor(n, m, base, v) ==
    [i \in 1..n |-> [j \in 1..m |-> IF i = 1 /\ j = 1 THEN v ELSE base]]

\* log-likelihood values: ordinary ones, NaN, and both infinities
LLVals == {Fin(-1), Fin(-3), NaN, NInf, PInf}

\* KL values: ordinary ones, NaN and an overflow
KLVals == {Fin(2), Fin(0), NaN, PInf}

Masks(B) ==
    {NoMask} \cup {[given |-> TRUE, keep |-> m] : m \in [1..B -> BOOLEAN]}

\* LVAELossConfig's defaults for kl_weight, musplit_weight, denoisplit_weight;
\* the annealing window is epochs 1 to MaxEpoch
\* the masks handed to the composite losses: none, one that keeps no
\* sample, one that keeps the first sample only
LossMasks(B) ==
    {NoMask} \cup {[given |-> TRUE, keep |-> [b \in 1..B |-> k /\ b = 1]] :
                      k \in BOOLEAN}

LossParameters(B) ==
    [mask : LossMasks(B),
     reconstruction_weight : {Fin(1), Fin(0)},
     kl_weight : {Fin(1)},
     kl_annealing : BOOLEAN,
     kl_start : {1},
     kl_annealtime : {MaxEpoch - 1},
     current_epoch : {0, MaxEpoch},
     non_stochastic : BOOLEAN,
     musplit_weight : {Frac(1, 10)},
     denoisplit_weight : {Frac(9, 10)}]

(***************************************************************************)
(* The composite losses, each called once on a batch.                      *)
(***************************************************************************)
InitLoss ==
    /\ model = Idle
    /\ call = Idle
    /\ arg = Idle
    /\ pc = "ready"
    /\ \E B \in 1..MaxBatch, C \in 1..MaxCh, L \in 1..MaxLayers :
          /\ ll \in {Tensor(B, C, Fin(-1), v) : v \in LLVals}
          /\ llG = Tensor(B, C, Fin(-2), Fin(-2))
          /\ td \in {[kl |-> Tensor(L, B, Fin(2), v),
                      zshape |-> [l \in 1..L |-> <<2, 1, 1>>]] : v \in KLVals}
          /\ lp \in LossParameters(B)
    /\ img = <<2, 2>>
    /\ fb = Idle
    /\ out = Idle
    /\ cfg = Idle
    /\ res = Idle

CallMusplitLoss ==
    /\ pc = "ready"
    /\ out' = musplit_loss(ll, td, lp)
    /\ pc' = "done"
    /\ UNCHANGED <<ll, llG, td, img, lp, fb, cfg, res, model, call, arg>>

CallDenoisplitLoss ==
    /\ pc = "ready"
    /\ out' = denoisplit_loss(ll, td, img, lp)
    /\ pc' = "done"
    /\ UNCHANGED <<ll, llG, td, img, lp, fb, cfg, res, model, call, arg>>

CallDenoisplitMusplitLoss ==
    /\ pc = "ready"
    /\ out' = denoisplit_musplit_loss(ll, llG, td, img, lp)
    /\ pc' = "done"
    /\ UNCHANGED <<ll, llG, td, img, lp, fb, cfg, res, model, call, arg>>

NextLoss == CallMusplitLoss \/ CallDenoisplitLoss \/ CallDenoisplitMusplitLoss

SpecLoss == InitLoss /\ [][NextLoss]_vars

(***************************************************************************)
(* get_reconstruction_loss, called on a batch with any mask.               *)
(***************************************************************************)
\* per-channel spatial means of the log-likelihood: two ordinary values
\* anywhere, and possibly a NaN at sample 1, channel 1
ReconsVals == {Fin(-1), Fin(-4)}

InitRecons ==
    /\ model = Idle
    /\ call = Idle
    /\ arg = Idle
    /\ pc = "ready"
    /\ \E B \in 1..MaxBatch, C \in 1..MaxCh :
          \E l \in [1..B -> [1..C -> ReconsVals]] :
             ll \in {l, [l EXCEPT ![1][1] = NaN]}
    /\ llG = Idle
    /\ td = Idle
    /\ img = Idle
    /\ lp = Idle
    /\ fb = Idle
    /\ out = Idle
    /\ cfg = Idle
    /\ res = Idle

CallGetReconstructionLoss ==
    /\ pc = "ready"
    /\ \E mask \in Masks(Len(ll)) :
          /\ lp' = [mask |-> mask]
          /\ out' = [fn |-> "get_reconstruction_loss",
                     dict |-> get_reconstruction_loss(ll, mask)]
    /\ pc' = "done"
    /\ UNCHANGED <<ll, llG, td, img, fb, cfg, res, model, call, arg>>

NextRecons == CallGetReconstructionLoss

SpecRecons == InitRecons /\ [][NextRecons]_vars

(***************************************************************************)
(* The KL utilities, called on the top-down data of one forward pass.      *)
(***************************************************************************)
\* per-sample KL values: two positive values anywhere, and possibly a
\* negative one (a Monte-Carlo estimate) at layer 1, sample 1
KLReals == {Frac(1, 2), Fin(3)}

\* free_bits below the tolerance, at it, and above it
FreeBits == {Fin(0), Frac(1, 2000000), Eps, Fin(1), Fin(2)}

ImgShapes == {<<1, 1>>, <<2, 2>>, <<2, 3>>, <<2, 2, 2>>}

InitKL ==
    /\ model = Idle
    /\ call = Idle
    /\ arg = Idle
    /\ pc = "ready"
    /\ \E B \in 1..MaxBatch, L \in 1..MaxLayers :
          \E kl \in [1..L -> [1..B -> KLReals]] :
             td \in {[kl |-> k, zshape |-> [l \in 1..L |-> <<2, l, 1>>]] :
                        k \in {kl, [kl EXCEPT ![1][1] = Fin(-1)]}}
    /\ ll = Idle
    /\ llG = Idle
    /\ img = Idle
    /\ lp = Idle
    /\ fb = Idle
    /\ out = Idle
    /\ cfg = Idle
    /\ res = Idle

CallFreeBitsKl ==
    /\ pc = "ready"
    /\ \E free_bits \in FreeBits, batch_average \in BOOLEAN :
          /\ fb' = [free_bits |-> free_bits, batch_average |-> batch_average]
          /\ out' = [fn |-> "free_bits_kl",
                     v |-> free_bits_kl(KlTensor(td), free_bits, batch_average, Eps)]
    /\ img' = Idle
    /\ pc' = "done"
    /\ UNCHANGED <<ll, llG, td, lp, cfg, res, model, call, arg>>

CallKlDenoisplit ==
    /\ pc = "ready"
    /\ \E img_shape \in ImgShapes :
          /\ img' = img_shape
          /\ out' = [fn |-> "get_kl_divergence_loss_denoisplit",
                     v |-> get_kl_divergence_loss_denoisplit(td, img_shape)]
    /\ fb' = Idle
    /\ pc' = "done"
    /\ UNCHANGED <<ll, llG, td, lp, cfg, res, model, call, arg>>

CallKlUsplit ==
    /\ pc = "ready"
    /\ out' = [fn |-> "get_kl_divergence_loss_usplit",
               v |-> get_kl_divergence_loss_usplit(td)]
    /\ fb' = Idle
    /\ img' = Idle
    /\ pc' = "done"
    /\ UNCHANGED <<ll, llG, td, lp, cfg, res, model, call, arg>>

NextKL == CallFreeBitsKl \/ CallKlDenoisplit \/ CallKlUsplit

SpecKL == InitKL /\ [][NextKL]_vars

(***************************************************************************)
(* VAEAlgorithmConfig: construction, then assignments to the fields of a   *)
(* constructed configuration (validate_assignment is on).                  *)
(***************************************************************************)
PredictLogvar == {None, "pixelwise"}

\* no noise model, or a list of 0..MaxCh per-channel noise models
NoiseModels ==
    {[given |-> FALSE, n |-> 0]} \cup {[given |-> TRUE, n |-> k] : k \in 0..MaxCh}

\* the values each field is given
FieldValues ==
    [algorithm |-> {"musplit", "denoisplit", "custom"},
     loss |-> {"musplit", "denoisplit", "denoisplit_musplit"},
     output_channels |-> 1..MaxCh,
     predict_logvar |-> PredictLogvar,
     noise_model |-> NoiseModels,
     nm_likelihood |-> {None, "set"},
     gaussian_predict_logvar |-> {NoGaussian} \cup PredictLogvar]

Configs ==
    [algorithm : FieldValues.algorithm,
     loss : FieldValues.loss,
     output_channels : FieldValues.output_channels,
     predict_logvar : FieldValues.predict_logvar,
     noise_model : FieldValues.noise_model,
     nm_likelihood : FieldValues.nm_likelihood,
     gaussian_predict_logvar : FieldValues.gaussian_predict_logvar]

InitConfig ==
    /\ model = Idle
    /\ call = Idle
    /\ arg = Idle
    /\ pc = "config"
    /\ cfg = NoConfig
    /\ res = NoResult
    /\ ll = Idle
    /\ llG = Idle
    /\ td = Idle
    /\ img = Idle
    /\ lp = Idle
    /\ fb = Idle
    /\ out = Idle

\* VAEAlgorithmConfig(...) at run configuration time: the object exists only
\* if the validation raised nothing; an exception ends the run
Construct ==
    /\ pc = "config"
    /\ \E c \in Configs :
          /\ res' = Validate(c)
          /\ IF Validate(c).status = "ok"
             THEN cfg' = c /\ pc' = "constructed"
             ELSE cfg' = cfg /\ pc' = "failed"
    /\ UNCHANGED <<ll, llG, td, img, lp, fb, out, model, call, arg>>

\* config.<field> = value.  The validators run on the configuration with the
\* new value; when one raises, pydantic has either kept the old value or
\* already stored the new one
Assign ==
    /\ pc = "constructed"
    /\ \E f \in DOMAIN FieldValues :
          \E v \in FieldValues[f] :
             LET c == [cfg EXCEPT ![f] = v]
             IN  /\ res' = Validate(c)
                 /\ \/ cfg' = c
                    \/ Validate(c).status # "ok" /\ cfg' = cfg
    /\ UNCHANGED <<pc, ll, llG, td, img, lp, fb, out, model, call, arg>>

NextConfig == Construct \/ Assign

SpecConfig == InitConfig /\ [][NextConfig]_vars

(***************************************************************************)
(* A training run: musplit_loss or denoisplit_loss on the batches of an    *)
(* epoch, and the training loop advancing loss_parameters.current_epoch.   *)
(***************************************************************************)
\* KLLossConfig.start defaults to -1; the window may end after MaxEpoch
AnnealStarts == {-1, 0, 1, 2}

AnnealTimes == {1, 2}

AnnealParameters ==
    [mask : {NoMask},
     reconstruction_weight : {Fin(1)},
     kl_weight : {Fin(1), Frac(1, 2)},
     kl_annealing : BOOLEAN,
     kl_start : AnnealStarts,
     kl_annealtime : AnnealTimes,
     current_epoch : {0},
     non_stochastic : BOOLEAN,
     musplit_weight : {Frac(1, 10)},
     denoisplit_weight : {Frac(9, 10)}]

\* no training step so far
NoStep == [fn |-> "-", locals |-> [kl_weight |-> Unbound]]

InitAnneal ==
    /\ model = Idle
    /\ call = Idle
    /\ arg = Idle
    /\ pc = "train"
    /\ ll = Tensor(1, 1, Fin(-1), Fin(-1))
    /\ td = [kl |-> Tensor(1, 1, Fin(2), Fin(2)), zshape |-> <<(<<2, 1, 1>>)>>]
    /\ img = <<2, 2>>
    /\ lp \in AnnealParameters
    /\ llG = Idle
    /\ fb = Idle
    /\ out = NoStep
    /\ cfg = Idle
    /\ res = Idle

TrainMusplit ==
    /\ pc \in {"train", "stepped"}
    /\ out' = musplit_loss(ll, td, lp)
    /\ pc' = "stepped"
    /\ UNCHANGED <<ll, llG, td, img, lp, fb, cfg, res, model, call, arg>>

TrainDenoisplit ==
    /\ pc \in {"train", "stepped"}
    /\ out' = denoisplit_loss(ll, td, img, lp)
    /\ pc' = "stepped"
    /\ UNCHANGED <<ll, llG, td, img, lp, fb, cfg, res, model, call, arg>>

\* the training loop, at the end of an epoch
AdvanceEpoch ==
    /\ pc = "stepped"
    /\ lp.current_epoch < MaxEpoch
    /\ lp' = [lp EXCEPT !.current_epoch = @ + 1]
    /\ pc' = "train"
    /\ UNCHANGED <<ll, llG, td, img, fb, out, cfg, res, model, call, arg>>

NextAnneal == TrainMusplit \/ TrainDenoisplit \/ AdvanceEpoch

SpecAnneal == InitAnneal /\ [][NextAnneal]_vars

(***************************************************************************)
(* The prediction utilities, called on a model in train or eval mode.      *)
(***************************************************************************)
\* the lists of auxiliary items that follow the tensor in a tuple input
RECURSIVE AuxLists(_)
AuxLists(k) ==
    IF k = 0 THEN {<< >>}
    ELSE AuxLists(k - 1)
            \cup {Append(a, Aux(i)) : a \in {b \in AuxLists(k - 1) : Len(b) = k - 1},
                                     i \in 1..2}

PredictInputs ==
    {Bare(TensorX), OtherInput, Tuple(<< >>)}
       \cup {Tuple(<<TensorX>> \o a) : a \in AuxLists(MaxAux)}

\* what one forward pass can yield: the model samples its latents, so two
\* passes on the same input differ
ForwardOutputs(m) ==
    [prediction : {Fin(1), Fin(2)},
     log_var : IF m.predict_logvar = None THEN {NoLogVar} ELSE {Fin(-1), Fin(-2)}]

NoCall == [status |-> "none"]

InitPredict ==
    /\ pc = "ready"
    /\ model \in [training : BOOLEAN, predict_logvar : PredictLogvar, calls : {<< >>}]
    /\ call = NoCall
    /\ arg = Idle
    /\ ll = Idle
    /\ llG = Idle
    /\ td = Idle
    /\ img = Idle
    /\ lp = Idle
    /\ fb = Idle
    /\ out = Idle
    /\ cfg = Idle
    /\ res = Idle

\* lvae_predict_single_sample(model, likelihood_obj, input)
CallSingleSample ==
    /\ pc = "ready"
    /\ \E input \in PredictInputs, o \in ForwardOutputs(model) :
          IF Unpack(input).status # "ok"
          THEN /\ call' = [fn |-> "lvae_predict_single_sample", input |-> input,
                           status |-> Unpack(input).status]
               /\ model' = model
          ELSE /\ model' = Forward(model, o)
               /\ call' = [fn |-> "lvae_predict_single_sample", input |-> input,
                           status |-> "returned",
                           ret |-> ReturnValue(o.prediction, o.log_var,
                                               Unpack(input).aux)]
    /\ pc' = "done"
    /\ UNCHANGED <<ll, llG, td, img, lp, fb, out, cfg, res, arg>>

\* lvae_predict_mmse(model, likelihood_obj, input, mmse_count), up to its loop
CallMmse ==
    /\ pc = "ready"
    /\ \E input \in PredictInputs, mmse_count \in -1..MaxMmse :
          IF MmseEntry(input, mmse_count) # "ok"
          THEN /\ call' = [fn |-> "lvae_predict_mmse", input |-> input,
                           mmse_count |-> mmse_count,
                           status |-> MmseEntry(input, mmse_count)]
               /\ pc' = "done"
          ELSE /\ call' = [fn |-> "lvae_predict_mmse", input |-> input,
                           mmse_count |-> mmse_count,
                           status |-> "running",
                           mmse_idx |-> 0,
                           log_var |-> NoLogVar,
                           sample_predictions |->
                               [k \in 1..mmse_count |-> Fin(0)]]
               /\ pc' = "mmse"
    /\ UNCHANGED <<ll, llG, td, img, lp, fb, out, cfg, res, model, arg>>

\* one iteration of `for mmse_idx in range(mmse_count)`
MmseSample ==
    /\ pc = "mmse"
    /\ call.mmse_idx < call.mmse_count
    /\ \E o \in ForwardOutputs(model) :
          /\ model' = Forward(model, o)
          /\ call' = [call EXCEPT
                         !.log_var = KeepFirstLogVar(call.mmse_idx, @, o.log_var),
                         !.sample_predictions[call.mmse_idx + 1] = o.prediction,
                         !.mmse_idx = @ + 1]
    /\ UNCHANGED <<pc, ll, llG, td, img, lp, fb, out, cfg, res, arg>>

\* the loop is over: the mean of the buffer, in the container of the input
MmseReturn ==
    /\ pc = "mmse"
    /\ call.mmse_idx >= call.mmse_count
    /\ call' = [fn |-> call.fn, input |-> call.input,
                mmse_count |-> call.mmse_count,
                status |-> "returned",
                mmse_idx |-> call.mmse_idx,
                log_var |-> call.log_var,
                sample_predictions |-> call.sample_predictions,
                ret |-> ReturnValue(MmsePrediction(call.sample_predictions),
                                    call.log_var, Unpack(call.input).aux)]
    /\ pc' = "done"
    /\ UNCHANGED <<ll, llG, td, img, lp, fb, out, cfg, res, model, arg>>

NextPredict == CallSingleSample \/ CallMmse \/ MmseSample \/ MmseReturn

SpecPredict == InitPredict /\ [][NextPredict]_vars

(***************************************************************************)
(* pad_img_tensor and crop_img_tensor, called on 2D and 3D image tensors;  *)
(* a padded tensor is then cropped back to the size it had.                *)
(***************************************************************************)
Shapes(k) == [1..2 -> 1..k] \cup [1..3 -> 1..k]

\* a tensor whose entries are all different and none 0: entry (z, y, x) is
\* the number with these digits
ImgTensor(shape) ==
    [shape |-> shape,
     data |-> [c \in Coords(shape) |->
                  IF Len(c) = 2 THEN 10 * c[1] + c[2]
                  ELSE 100 * c[1] + 10 * c[2] + c[3]]]

InitPadCrop ==
    /\ pc = "ready"
    /\ arg \in {ImgTensor(shape) : shape \in Shapes(MaxSide)}
    /\ call = NoCall
    /\ model = Idle
    /\ out = NoResult
    /\ ll = Idle
    /\ llG = Idle
    /\ td = Idle
    /\ img = Idle
    /\ lp = Idle
    /\ fb = Idle
    /\ cfg = Idle
    /\ res = Idle

CallPad ==
    /\ pc = "ready"
    /\ \E size \in Shapes(MaxTarget) :
          /\ call' = [status |-> "returned", fn |-> "pad_img_tensor",
                      t |-> arg, size |-> size]
          /\ out' = pad_img_tensor(arg, size)
          /\ pc' = IF pad_img_tensor(arg, size).status = "ok"
                   THEN "padded" ELSE "done"
    /\ UNCHANGED <<ll, llG, td, img, lp, fb, cfg, res, model, arg>>

CallCrop ==
    /\ pc = "ready"
    /\ \E size \in Shapes(MaxTarget) :
          /\ call' = [status |-> "returned", fn |-> "crop_img_tensor",
                      t |-> arg, size |-> size]
          /\ out' = crop_img_tensor(arg, size)
    /\ pc' = "done"
    /\ UNCHANGED <<ll, llG, td, img, lp, fb, cfg, res, model, arg>>

\* crop_img_tensor(padded, original size)
CallCropBack ==
    /\ pc = "padded"
    /\ call' = [status |-> "returned", fn |-> "crop_img_tensor",
                t |-> out.tensor, size |-> arg.shape]
    /\ out' = crop_img_tensor(out.tensor, arg.shape)
    /\ pc' = "cropped back"
    /\ UNCHANGED <<ll, llG, td, img, lp, fb, cfg, res, model, arg>>

NextPadCrop == CallPad \/ CallCrop \/ CallCropBack

SpecPadCrop == InitPadCrop /\ [][NextPadCrop]_vars

(***************************************************************************)
(* StableExponential and StableLogVar, applied to a log-variance tensor.   *)
(***************************************************************************)
\* positive log-variances, 0, and the negative ln(1/2) and ln(1/4)
LogVarValues ==
    {Frac(1, 2), Fin(1), Fin(2), Fin(3), Fin(0), Ln(Frac(1, 2)), Ln(Frac(1, 4))}

InitStable ==
    /\ pc = "ready"
    /\ \E n \in 1..MaxElems : arg \in [1..n -> LogVarValues]
    /\ call = NoCall
    /\ model = Idle
    /\ out = NoResult
    /\ ll = Idle
    /\ llG = Idle
    /\ td = Idle
    /\ img = Idle
    /\ lp = Idle
    /\ fb = Idle
    /\ cfg = Idle
    /\ res = Idle

CallExp ==
    /\ pc = "ready"
    /\ call' = [status |-> "returned", fn |-> "StableExponential.exp"]
    /\ out' = [status |-> "ok",
               v |-> [i \in DOMAIN arg |-> StableExponential_exp(arg[i])]]
    /\ pc' = "done"
    /\ UNCHANGED <<ll, llG, td, img, lp, fb, cfg, res, model, arg>>

CallLog ==
    /\ pc = "ready"
    /\ call' = [status |-> "returned", fn |-> "StableExponential.log"]
    /\ out' = [status |-> "ok",
               v |-> [i \in DOMAIN arg |-> StableExponential_log(arg[i])]]
    /\ pc' = "done"
    /\ UNCHANGED <<ll, llG, td, img, lp, fb, cfg, res, model, arg>>

CallGetVar ==
    /\ pc = "ready"
    /\ \E enable_stable \in BOOLEAN :
          /\ call' = [status |-> "returned", fn |-> "StableLogVar.get_var",
                      enable_stable |-> enable_stable]
          /\ out' = [status |-> "ok",
                     v |-> [i \in DOMAIN arg |->
                               StableLogVar_get_var(arg[i], enable_stable, VarEps)]]
    /\ pc' = "done"
    /\ UNCHANGED <<ll, llG, td, img, lp, fb, cfg, res, model, arg>>

CallGet ==
    /\ pc = "ready"
    /\ \E enable_stable \in BOOLEAN :
          /\ call' = [status |-> "returned", fn |-> "StableLogVar.get",
                      enable_stable |-> enable_stable]
          /\ out' = [status |-> "ok",
                     v |-> [i \in DOMAIN arg |->
                               StableLogVar_get(arg[i], enable_stable, VarEps)]]
    /\ pc' = "done"
    /\ UNCHANGED <<ll, llG, td, img, lp, fb, cfg, res, model, arg>>

NextStable == CallExp \/ CallLog \/ CallGetVar \/ CallGet

SpecStable == InitStable /\ [][NextStable]_vars


(***************************************************************************)
(* config/data/data_model.py                                               *)
(*                                                                         *)
(* A data configuration is the record of the fields the model validators   *)
(* read: axes, patch_size and the four optional lists of floats.  An       *)
(* optional list is [some |-> FALSE] for None and [some |-> TRUE, v |-> s] *)
(* for the list s; the floats themselves are never read, only the lengths, *)
(* so every element is 1.  Axes and patch sizes are drawn from values the  *)
(* field validators accept.                                                *)
(***************************************************************************)
NoList == [some |-> FALSE, v |-> << >>]

List(s) == [some |-> TRUE, v |-> s]

\* bool(l) of an optional list: None and [] are both falsy
Truthy(l) == l.some /\ Len(l.v) > 0

PairRaises(means, stds) ==
    IF (Truthy(means) /\ ~Truthy(stds)) \/ (Truthy(stds) /\ ~Truthy(means))
    THEN TRUE
    ELSE means.some /\ stds.some /\ Len(means.v) # Len(stds.v)

std_only_with_mean(c) ==
    IF PairRaises(c.image_means, c.image_stds) THEN "ValueError"
    ELSE IF PairRaises(c.target_means, c.target_stds) THEN "ValueError"
    ELSE "ok"

validate_dimensions(c) ==
    IF c.axes = "ZYX"
    THEN IF Len(c.patch_size) # 3 THEN "ValueError" ELSE "ok"
    ELSE IF Len(c.patch_size) # 2 THEN "ValueError" ELSE "ok"

PatchSizeField(c) ==
    IF Len(c.patch_size) < 2 \/ Len(c.patch_size) > 3
    THEN "ValueError" ELSE "ok"

model_validate(c) ==
    IF PatchSizeField(c) # "ok" THEN "ValueError"
    ELSE IF std_only_with_mean(c) # "ok" THEN "ValueError"
    ELSE validate_dimensions(c)

\* self.__dict__.update(kwargs), then model_validate(self.__dict__)
update(c, kwargs) ==
    LET d == [f \in DOMAIN c |-> IF f \in DOMAIN kwargs THEN kwargs[f] ELSE c[f]]
    IN  [dict |-> d, status |-> model_validate(d)]

(***************************************************************************)
(* GeneralDataConfig: a constructed configuration, then calls of           *)
(* set_means_and_stds and set_3D on it.                                    *)
(***************************************************************************)
Ones(n) == [i \in 1..n |-> 1]

OptLists == {NoList} \cup {List(Ones(n)) : n \in 0..MaxCh}

\* the lists given for the targets: None, empty, one channel, MaxCh channels
TargetLists == {NoList, List(Ones(0)), List(Ones(1)), List(Ones(MaxCh))}

DataAxes == {"YX", "ZYX"}

PatchSizes == {<<8, 8>>, <<8, 8, 8>>}

DataConfigs ==
    [axes : DataAxes, patch_size : PatchSizes,
     image_means : OptLists, image_stds : OptLists,
     target_means : TargetLists, target_stds : TargetLists]

InitData ==
    /\ pc = "data"
    /\ cfg \in {c \in DataConfigs : model_validate(c) = "ok"}
    /\ res = [status |-> "ok", fn |-> "__init__"]
    /\ model = Idle
    /\ call = Idle
    /\ arg = Idle
    /\ ll = Idle
    /\ llG = Idle
    /\ td = Idle
    /\ img = Idle
    /\ lp = Idle
    /\ fb = Idle
    /\ out = Idle

SetMeansAndStds ==
    /\ pc = "data"
    /\ \E im \in OptLists, is \in OptLists,
          tm \in TargetLists, ts \in TargetLists :
          LET u == update(cfg, [image_means |-> im, image_stds |-> is,
                                target_means |-> tm, target_stds |-> ts])
          IN  /\ cfg' = u.dict
              /\ res' = [status |-> u.status, fn |-> "set_means_and_stds"]
    /\ UNCHANGED <<pc, ll, llG, td, img, lp, fb, out, model, call, arg>>

Set3D ==
    /\ pc = "data"
    /\ \E axes \in DataAxes, patch_size \in PatchSizes :
          LET u == update(cfg, [axes |-> axes, patch_size |-> patch_size])
          IN  /\ cfg' = u.dict
              /\ res' = [status |-> u.status, fn |-> "set_3D"]
    /\ UNCHANGED <<pc, ll, llG, td, img, lp, fb, out, model, call, arg>>

NextData == SetMeansAndStds \/ Set3D

SpecData == InitData /\ [][NextData]_vars


(***************************************************************************)
(* lightning/callbacks/prediction_writer_callback: a PredictionWriter-     *)
(* Callback under calls of setup, set_writing_predictions,                 *)
(* write_on_batch_end and `with callback.writing_predictions(flag)` blocks.*)
(*   model   the callback: _writing_predictions, whether setup has made    *)
(*           the output directory, and the stage of the last setup         *)
(*   call    the open `with` blocks, innermost last: the previous_value    *)
(*           each generator saved                                          *)
(*   out     the last call and its outcome                                 *)
(* A `with` block is left normally (the generator resumes after its yield) *)
(* or by an exception raised in its body, which contextmanager throws into *)
(* the generator at the yield; the exception leaves one or more of the     *)
(* open blocks before the caller catches it.                               *)
(***************************************************************************)
MaxNest == 2

Stages == {"fit", "predict"}

Datasets == {"IterablePredDataset", "IterableTiledPredDataset",
             "InMemoryPredDataset"}

ValidPredDatasets == {"IterablePredDataset", "IterableTiledPredDataset"}

Outcome(fn, outcome) ==
    [fn |-> fn, outcome |-> outcome, writing |-> model.writing,
     dir |-> model.dir, dataset |-> None]

\* the code of the generator after its yield, which runs only when the
\* generator is resumed normally
AfterYield(frame, writing, raised) ==
    IF raised THEN writing ELSE frame.previous_value

InitWriter ==
    /\ pc = "writer"
    /\ model = [writing |-> TRUE, dir |-> FALSE, stage |-> None]
    /\ call = << >>
    /\ out = [fn |-> "__init__", outcome |-> "returned", writing |-> TRUE,
              dir |-> FALSE, dataset |-> None]
    /\ cfg = Idle
    /\ res = Idle
    /\ arg = Idle
    /\ ll = Idle
    /\ llG = Idle
    /\ td = Idle
    /\ img = Idle
    /\ lp = Idle
    /\ fb = Idle

EnterWith ==
    /\ pc = "writer"
    /\ Len(call) < MaxNest
    /\ \E flag \in BOOLEAN :
          /\ call' = Append(call, [previous_value |-> model.writing])
          /\ model' = [model EXCEPT !.writing = flag]
          /\ out' = [Outcome("writing_predictions", "entered")
                        EXCEPT !.writing = flag]
    /\ UNCHANGED <<pc, ll, llG, td, img, lp, fb, cfg, res, arg>>

ExitWith ==
    /\ pc = "writer"
    /\ Len(call) > 0
    /\ LET w == AfterYield(call[Len(call)], model.writing, FALSE)
       IN  /\ model' = [model EXCEPT !.writing = w]
           /\ out' = [Outcome("writing_predictions", "exited")
                         EXCEPT !.writing = w]
    /\ call' = SubSeq(call, 1, Len(call) - 1)
    /\ UNCHANGED <<pc, ll, llG, td, img, lp, fb, cfg, res, arg>>

RECURSIVE Unwind(_, _, _)
Unwind(stack, writing, k) ==
    IF k = 0 THEN writing
    ELSE Unwind(SubSeq(stack, 1, Len(stack) - 1),
                AfterYield(stack[Len(stack)], writing, TRUE), k - 1)

RaiseInWith ==
    /\ pc = "writer"
    /\ \E k \in 1..Len(call) :
          LET w == Unwind(call, model.writing, k)
          IN  /\ model' = [model EXCEPT !.writing = w]
              /\ out' = [Outcome("writing_predictions", "raised")
                            EXCEPT !.writing = w]
              /\ call' = SubSeq(call, 1, Len(call) - k)
    /\ UNCHANGED <<pc, ll, llG, td, img, lp, fb, cfg, res, arg>>

SetWritingPredictions ==
    /\ pc = "writer"
    /\ \E flag \in BOOLEAN :
          /\ model' = [model EXCEPT !.writing = flag]
          /\ out' = [Outcome("set_writing_predictions", "returned")
                        EXCEPT !.writing = flag]
    /\ UNCHANGED <<pc, ll, llG, td, img, lp, fb, cfg, res, call, arg>>

SetupMakesDir(stage) == stage = "predict" /\ model.writing

Setup ==
    /\ pc = "writer"
    /\ \E stage \in Stages :
          LET d == model.dir \/ SetupMakesDir(stage)
          IN  /\ model' = [model EXCEPT !.dir = d, !.stage = stage]
              /\ out' = [Outcome("setup", "returned") EXCEPT !.dir = d]
    /\ UNCHANGED <<pc, ll, llG, td, img, lp, fb, cfg, res, call, arg>>

write_on_batch_end(dataset) ==
    IF ~model.writing THEN "returned"
    ELSE IF dataset \notin ValidPredDatasets THEN "TypeError"
    ELSE "written"

WriteOnBatchEnd ==
    /\ pc = "writer"
    /\ \E dataset \in Datasets :
          out' = [Outcome("write_on_batch_end", write_on_batch_end(dataset))
                     EXCEPT !.dataset = dataset]
    /\ UNCHANGED <<pc, ll, llG, td, img, lp, fb, cfg, res, model, call, arg>>

NextWriter ==
    \/ EnterWith
    \/ ExitWith
    \/ RaiseInWith
    \/ SetWritingPredictions
    \/ Setup
    \/ WriteOnBatchEnd

SpecWriter == InitWriter /\ [][NextWriter]_vars


(***************************************************************************)
(* reconstruction_loss_musplit_denoisplit, called on predictions with any  *)
(* number of channels.                                                     *)
(*   arg     predictions: arg[b][c] names channel c of sample b            *)
(*   img     targets.shape[1], the number of target channels               *)
(*   lp      nm_weight and gaussian_weight                                 *)
(*   ll, llG what the two likelihoods return for the batch                 *)
(*   call    what each likelihood was handed                               *)
(***************************************************************************)
MixWeights == {Frac(1, 10), Frac(9, 10), Fin(0)}

MixVals == {Fin(-1), Fin(-3), NaN}

Channel(b, c) == Fin(10 * b + c)

InitMix ==
    /\ pc = "ready"
    /\ \E B \in 1..MaxBatch, C \in 1..MaxCh, P \in 1..(2 * MaxCh) :
          /\ arg = [b \in 1..B |-> [c \in 1..P |-> Channel(b, c)]]
          /\ img = C
          /\ ll \in {Tensor(B, C, Fin(-1), v) : v \in MixVals}
          /\ llG \in {Tensor(B, C, Fin(-2), v) : v \in {Fin(-2), Fin(-5)}}
    /\ lp \in [nm_weight : MixWeights, gaussian_weight : MixWeights]
    /\ call = NoCall
    /\ out = NoResult
    /\ model = Idle
    /\ td = Idle
    /\ fb = Idle
    /\ cfg = Idle
    /\ res = Idle

CallReconstructionLossMix ==
    /\ pc = "ready"
    /\ call' = [status |-> "returned",
                nm_likelihood |-> OutMean(arg, img),
                gaussian_likelihood |-> arg]
    /\ out' = [status |-> "ok",
               v |-> reconstruction_loss_musplit_denoisplit(
                         ll, llG, lp.nm_weight, lp.gaussian_weight)]
    /\ pc' = "done"
    /\ UNCHANGED <<ll, llG, td, img, lp, fb, cfg, res, model, arg>>

NextMix == CallReconstructionLossMix

SpecMix == InitMix /\ [][NextMix]_vars


(***************************************************************************)
(* careamics_restoration/utils/logging.py: get_logger, called any number   *)
(* of times with any names, levels and log paths.                          *)
(*   cfg     the keys of the module's LOGGERS dictionary                   *)
(*   model   the loggers of the logging module, by name: handlers, level   *)
(*           and propagate (logging.getLogger returns one object per name) *)
(*   call    the names requested so far                                    *)
(*   out     the last call                                                 *)
(* A name is a sequence of characters, so that startswith is the prefix    *)
(* relation.                                                               *)
(***************************************************************************)
LoggerNames == {<<"a">>, <<"a", ".", "b">>, <<"a", "b">>, <<"c">>}

LogLevels == {"DEBUG", "INFO"}

LogPaths == {None, "log.txt"}

\* a logger logging.getLogger has just created
NewLogger == [handlers |-> << >>, level |-> "NOTSET", propagate |-> TRUE]

\* name.startswith(logger_name)
startswith(name, logger_name) ==
    /\ Len(logger_name) <= Len(name)
    /\ SubSeq(name, 1, Len(logger_name)) = logger_name

\* the early returns, without the loop over the known prefixes
KnownOnly(name, loggers) == name \in loggers

\* the two early returns of get_logger
ReturnsEarly(name, loggers) ==
    \/ name \in loggers
    \/ \E logger_name \in loggers : startswith(name, logger_name)

Handlers(log_level, log_path) ==
    IF log_path # None
    THEN <<[kind |-> "StreamHandler", level |-> log_level],
           [kind |-> "FileHandler", level |-> log_level]>>
    ELSE <<[kind |-> "StreamHandler", level |-> log_level]>>

\* the logger after lines 43-60
Configure(logger, log_level, log_path) ==
    [handlers |-> logger.handlers \o Handlers(log_level, log_path),
     level |-> log_level,
     propagate |-> FALSE]

InitLogger ==
    /\ pc = "logging"
    /\ cfg = {}
    /\ model = [n \in LoggerNames |-> NewLogger]
    /\ call = {}
    /\ out = NoCall
    /\ res = Idle
    /\ arg = Idle
    /\ ll = Idle
    /\ llG = Idle
    /\ td = Idle
    /\ img = Idle
    /\ lp = Idle
    /\ fb = Idle

GetLogger ==
    /\ pc = "logging"
    /\ \E name \in LoggerNames, log_level \in LogLevels, log_path \in LogPaths :
          /\ call' = call \cup {name}
          /\ out' = [status |-> "returned", name |-> name,
                     log_level |-> log_level, log_path |-> log_path]
          /\ IF ReturnsEarly(name, cfg)
             THEN UNCHANGED <<cfg, model>>
             ELSE /\ model' = [model EXCEPT
                                 ![name] = Configure(@, log_level, log_path)]
                  /\ cfg' = cfg \cup {name}
    /\ UNCHANGED <<pc, ll, llG, td, img, lp, fb, res, arg>>

NextLogger == GetLogger

SpecLogger == InitLogger /\ [][NextLogger]_vars


(***************************************************************************)
(* dataset/in_memory_dataset.py: split_dataset, called any number of times *)
(* on an InMemoryDataset.                                                  *)
(*   model   the dataset: data, the patches in order (a patch is named by  *)
(*           the position it had at construction), and data_targets, None  *)
(*           or the targets in the same order (TargetOf names the target   *)
(*           of a patch)                                                   *)
(*   call    the arguments of the last call and the dataset before it      *)
(*   out     the dataset the last call returned, or the error it raised    *)
(* np.random.choice(total, n, replace=False) is any sequence of n distinct *)
(* indices.                                                                *)
(***************************************************************************)
MaxPatches == 4

TargetOf(patch) == patch + 100

NoTargets == [given |-> FALSE, v |-> << >>]

NoDataset == [data |-> << >>, data_targets |-> NoTargets]

\* Python's round of the fraction n/d, d > 0: to the nearest integer, a tie
\* to the even one
Round(n, d) ==
    LET q == n \div d
        r == n % d
    IN  IF 2 * r < d THEN q
        ELSE IF 2 * r > d THEN q + 1
        ELSE IF q % 2 = 0 THEN q ELSE q + 1

Max(a, b) == IF a >= b THEN a ELSE b

\* the number of patches without the minimum
NPatchesNoMinimum(total_patches, percentage, minimum_patches) ==
    Round(total_patches * percentage.n, percentage.d)

\* n_patches = max(round(total_patches * percentage), minimum_patches)
NPatches(total_patches, percentage, minimum_patches) ==
    Max(Round(total_patches * percentage.n, percentage.d), minimum_patches)

Choices(total_patches, n_patches) ==
    {s \in [1..n_patches -> 1..total_patches] :
        \A i, j \in 1..n_patches : i # j => s[i] # s[j]}

\* array[indices]
TakeIndices(array, indices) == [i \in DOMAIN indices |-> array[indices[i]]]

\* np.delete(array, indices, axis=0)
RECURSIVE DeleteIndices(_, _, _)
DeleteIndices(array, indices, i) ==
    IF i > Len(array) THEN << >>
    ELSE IF \E k \in DOMAIN indices : indices[k] = i - 1
         THEN DeleteIndices(array, indices, i + 1)
         ELSE <<array[i]>> \o DeleteIndices(array, indices, i + 1)

\* lines 248-257: the two ValueErrors
SplitRaises(self, percentage, minimum_patches) ==
    \/ FLt(percentage, Fin(0)) \/ FLt(Fin(1), percentage)
    \/ minimum_patches < 1 \/ minimum_patches > Len(self.data)

\* lines 259-288, for the zero-based indices drawn: the dataset left in
\* self and the dataset returned
SplitAt(self, indices) ==
    LET split(array) == [kept |-> DeleteIndices(array, indices, 1),
                         val |-> TakeIndices(array,
                                    [i \in DOMAIN indices |-> indices[i] + 1])]
        d == split(self.data)
        t == split(self.data_targets.v)
    IN  [self |-> [data |-> d.kept,
                   data_targets |-> IF self.data_targets.given
                                    THEN [given |-> TRUE, v |-> t.kept]
                                    ELSE NoTargets],
         dataset |-> [data |-> d.val,
                      data_targets |-> IF self.data_targets.given
                                       THEN [given |-> TRUE, v |-> t.val]
                                       ELSE NoTargets]]

Percentages ==
    {Frac(0 - 1, 4), Fin(0), Frac(1, 4), Frac(1, 2), Frac(5, 8), Fin(1),
     Frac(5, 4)}

InitDataset ==
    /\ pc = "dataset"
    /\ \E N \in 0..MaxPatches, supervised \in BOOLEAN :
          model = [data |-> [i \in 1..N |-> i],
                   data_targets |->
                       IF supervised
                       THEN [given |-> TRUE, v |-> [i \in 1..N |-> TargetOf(i)]]
                       ELSE NoTargets]
    /\ call = NoCall
    /\ out = [status |-> "none", dataset |-> NoDataset]
    /\ cfg = Idle
    /\ res = Idle
    /\ arg = Idle
    /\ ll = Idle
    /\ llG = Idle
    /\ td = Idle
    /\ img = Idle
    /\ lp = Idle
    /\ fb = Idle

SplitDataset ==
    /\ pc = "dataset"
    /\ \E percentage \in Percentages, minimum_patches \in 0..(MaxPatches + 1) :
          /\ call' = [status |-> "returned", before |-> model,
                      percentage |-> percentage,
                      minimum_patches |-> minimum_patches]
          /\ IF SplitRaises(model, percentage, minimum_patches)
             THEN /\ out' = [status |-> "ValueError", dataset |-> NoDataset]
                  /\ model' = model
             ELSE \E indices \in
                        {[i \in DOMAIN s |-> s[i] - 1] :
                            s \in Choices(Len(model.data),
                                     NPatches(Len(model.data), percentage,
                                              minimum_patches))} :
                     LET s == SplitAt(model, indices)
                     IN  /\ model' = s.self
                         /\ out' = [status |-> "ok", dataset |-> s.dataset]
    /\ UNCHANGED <<pc, ll, llG, td, img, lp, fb, cfg, res, arg>>

NextDataset == SplitDataset

SpecDataset == InitDataset /\ [][NextDataset]_vars


(***************************************************************************)
(* ligthning_datamodule.py: the constructors of CAREamicsWood (training)   *)
(* and CAREamicsClay (prediction), called on arguments of any type.        *)
(*   cfg     data_config.data_type                                         *)
(*   arg     the types of the data arguments (data is train_data or        *)
(*           pred_data) and whether a read_source_func is given            *)
(*   out     the class constructed and "ok" or the exception raised        *)
(***************************************************************************)
DataTypes == {"array", "tiff", "custom"}

ArgTypes == {"Path", "str", "ndarray", "list"}

\* len(set(type(i) for i in inputs)) > 2
MixedTypes(a) ==
    Cardinality({a.data, a.val_data, a.train_data_target,
                 a.val_data_target}) > 2

\* lines 54-76 and 245-257: the checks the two constructors share, with
\* the test each makes of a tiff argument
TypeCheck(data_type, a, tiff_raises) ==
    IF data_type = "custom" /\ ~a.read_source_func THEN "ValueError"
    ELSE IF data_type = "array" /\ a.data # "ndarray" THEN "ValueError"
    ELSE IF data_type = "tiff" /\ tiff_raises THEN "ValueError"
    ELSE "ok"

\* isinstance(x, Path) / isinstance(x, str) of an argument of type t
IsPath(t) == t = "Path"

IsStr(t) == t = "str"

CAREamicsWood(data_type, a) ==
    IF MixedTypes(a) THEN "ValueError"
    ELSE TypeCheck(data_type, a, ~IsPath(a.data) /\ ~IsStr(a.data))

CAREamicsClay(data_type, a) ==
    TypeCheck(data_type, a, ~IsPath(a.data) \/ ~IsStr(a.data))

InitModule ==
    /\ pc = "ready"
    /\ cfg \in [data_type : DataTypes]
    /\ arg \in [data : ArgTypes, val_data : ArgTypes,
                train_data_target : ArgTypes \cup {"NoneType"},
                val_data_target : ArgTypes \cup {"NoneType"},
                read_source_func : BOOLEAN]
    /\ out = [cls |-> None, status |-> "none"]
    /\ model = Idle
    /\ call = Idle
    /\ res = Idle
    /\ ll = Idle
    /\ llG = Idle
    /\ td = Idle
    /\ img = Idle
    /\ lp = Idle
    /\ fb = Idle

ConstructWood ==
    /\ pc = "ready"
    /\ out' = [cls |-> "CAREamicsWood",
               status |-> CAREamicsWood(cfg.data_type, arg)]
    /\ pc' = "done"
    /\ UNCHANGED <<ll, llG, td, img, lp, fb, cfg, res, model, call, arg>>

ConstructClay ==
    /\ pc = "ready"
    /\ out' = [cls |-> "CAREamicsClay",
               status |-> CAREamicsClay(cfg.data_type, arg)]
    /\ pc' = "done"
    /\ UNCHANGED <<ll, llG, td, img, lp, fb, cfg, res, model, call, arg>>

NextModule == ConstructWood \/ ConstructClay

SpecModule == InitModule /\ [][NextModule]_vars


(***************************************************************************)
(* The loss engine and the storage of its inputs.  The KL functions build  *)
(* their (B, n_layers) tensor with torch.cat, which allocates new storage, *)
(* and the usplit KL then divides that tensor layer by layer in place.     *)
(* Each function is given here with the top-down data it leaves behind;    *)
(* the functions are called any number of times on the data of one forward *)
(* pass.                                                                   *)
(*   td, ll, llG, img, lp   the inputs, as the calls so far left them      *)
(*   model   the same inputs as the forward pass produced them             *)
(*   call    the last call                                                 *)
(*   arg     the functions called so far                                   *)
(*   out     what the last call returned                                   *)
(***************************************************************************)
\* torch.cat returning a view of the per-layer tensors
CatSharesStorage(t) == [storage |-> "td", v |-> KlTensor(t)]

\* torch.cat([kl_layer.unsqueeze(1) ...], dim=1): a tensor with storage of
\* its own holding the per-layer values
torch_cat(t) == [storage |-> "new", v |-> KlTensor(t)]

\* the loop `kl[:, i] = kl[:, i] / norm_factor`: the tensor after the
\* writes, and the top-down data after them
NormalizeInPlace(t, kl) ==
    LET v == [l \in DOMAIN kl.v |->
                 [b \in DOMAIN kl.v[l] |->
                     FDiv(kl.v[l][b], Fin(Prod(t.zshape[l])))]]
    IN  [kl |-> v, td |-> IF kl.storage = "td" THEN [t EXCEPT !.kl = v] ELSE t]

\* get_kl_divergence_loss_usplit: its value and the data it leaves
UsplitKl(t) ==
    LET r == NormalizeInPlace(t, torch_cat(t))
    IN  [v |-> FMean(free_bits_kl(r.kl, Fin(0), FALSE, Eps)), td |-> r.td]

\* get_kl_divergence_loss_denoisplit: its value and the data it leaves
DenoisplitKl(t, img_shape) ==
    LET kl == torch_cat(t)
    IN  [v |-> FDiv(FSum(free_bits_kl(kl.v, Fin(1), FALSE, Eps)),
                    Fin(Prod(img_shape))),
         td |-> t]

\* the top-down data each composite loss leaves
TdAfterMusplitLoss(t, p) == UsplitKl(t).td

TdAfterDenoisplitLoss(t, img_shape, p) ==
    IF p.non_stochastic THEN t ELSE DenoisplitKl(t, img_shape).td

TdAfterDenoisplitMusplitLoss(t, img_shape, p) ==
    IF p.non_stochastic THEN t
    ELSE UsplitKl(DenoisplitKl(t, img_shape).td).td

FrameKLVals == {Fin(2), Fin(6), Frac(1, 2)}

FrameParameters(B) ==
    {p \in LossParameters(B) :
        /\ p.mask = NoMask /\ p.reconstruction_weight = Fin(1)
        /\ p.current_epoch = 0 /\ ~p.kl_annealing}

InitFrame ==
    /\ pc = "ready"
    /\ \E B \in 1..MaxBatch, L \in 1..MaxLayers :
          /\ ll \in {Tensor(B, 1, Fin(-1), v) : v \in {Fin(-1), Fin(-3)}}
          /\ llG = Tensor(B, 1, Fin(-2), Fin(-2))
          /\ td \in {[kl |-> Tensor(L, B, Fin(2), v),
                      zshape |-> [l \in 1..L |-> <<2, l, 1>>]] :
                        v \in FrameKLVals}
          /\ lp \in FrameParameters(B)
    /\ img = <<2, 2>>
    /\ model = [td |-> td, ll |-> ll, llG |-> llG, img |-> img, lp |-> lp]
    /\ call = NoCall
    /\ out = NoResult
    /\ fb = Idle
    /\ cfg = Idle
    /\ res = Idle
    /\ arg = {}

FrameKlUsplit ==
    /\ pc = "ready"
    /\ call' = [status |-> "returned", fn |-> "get_kl_divergence_loss_usplit"]
    /\ arg' = arg \cup {"get_kl_divergence_loss_usplit"}
    /\ out' = [status |-> "ok", v |-> UsplitKl(td).v]
    /\ td' = UsplitKl(td).td
    /\ UNCHANGED <<pc, ll, llG, img, lp, fb, cfg, res, model>>

FrameKlDenoisplit ==
    /\ pc = "ready"
    /\ call' = [status |-> "returned", fn |-> "get_kl_divergence_loss_denoisplit"]
    /\ arg' = arg \cup {"get_kl_divergence_loss_denoisplit"}
    /\ out' = [status |-> "ok", v |-> DenoisplitKl(td, img).v]
    /\ td' = DenoisplitKl(td, img).td
    /\ UNCHANGED <<pc, ll, llG, img, lp, fb, cfg, res, model>>

FrameMusplitLoss ==
    /\ pc = "ready"
    /\ call' = [status |-> "returned", fn |-> "musplit_loss"]
    /\ arg' = arg \cup {"musplit_loss"}
    /\ out' = [status |-> "ok", v |-> musplit_loss(ll, td, lp)]
    /\ td' = TdAfterMusplitLoss(td, lp)
    /\ UNCHANGED <<pc, ll, llG, img, lp, fb, cfg, res, model>>

FrameDenoisplitLoss ==
    /\ pc = "ready"
    /\ call' = [status |-> "returned", fn |-> "denoisplit_loss"]
    /\ arg' = arg \cup {"denoisplit_loss"}
    /\ out' = [status |-> "ok", v |-> denoisplit_loss(ll, td, img, lp)]
    /\ td' = TdAfterDenoisplitLoss(td, img, lp)
    /\ UNCHANGED <<pc, ll, llG, img, lp, fb, cfg, res, model>>

FrameDenoisplitMusplitLoss ==
    /\ pc = "ready"
    /\ call' = [status |-> "returned", fn |-> "denoisplit_musplit_loss"]
    /\ arg' = arg \cup {"denoisplit_musplit_loss"}
    /\ out' = [status |-> "ok",
               v |-> denoisplit_musplit_loss(ll, llG, td, img, lp)]
    /\ td' = TdAfterDenoisplitMusplitLoss(td, img, lp)
    /\ UNCHANGED <<pc, ll, llG, img, lp, fb, cfg, res, model>>

NextFrame ==
    \/ FrameKlUsplit
    \/ FrameKlDenoisplit
    \/ FrameMusplitLoss
    \/ FrameDenoisplitLoss
    \/ FrameDenoisplitMusplitLoss

SpecFrame == InitFrame /\ [][NextFrame]_vars

(***************************************************************************)
(* Claims about the composite losses (checked under SpecLoss).             *)
(***************************************************************************)
Returned == pc = "done"

\* C1 as stated: a composite loss returns None exactly when the combined net
\* loss is non-finite (NaN or +-infinity), and every value of a returned
\* dictionary is finite.
C1_NoneIffNonFinite ==
    Returned =>
        /\ (out.ret = "None") <=> ~IsFinite(out.locals.net_loss)
        /\ out.ret = "dict" =>
              /\ IsFinite(out.loss)
              /\ IsFinite(out.reconstruction_loss)
              /\ IsFinite(out.kl_loss)

\* C1 amended: a composite loss returns None exactly when the combined net
\* loss is NaN; in a returned dictionary none of loss, reconstruction_loss
\* and kl_loss is NaN (an infinite total is returned, not skipped).
C1_NoneIffNaN ==
    Returned =>
        /\ (out.ret = "None") <=> IsNan(out.locals.net_loss)
        /\ out.ret = "dict" =>
              /\ ~IsNan(out.loss)
              /\ ~IsNan(out.reconstruction_loss)
              /\ ~IsNan(out.kl_loss)
              /\ out.loss = out.locals.net_loss

\* a composite loss has returned None on a batch
C1_Witness ==
    /\ Returned
    /\ out.ret = "None"
    /\ \E b \in DOMAIN td.kl[1] : IsNan(td.kl[1][b])

\* an infinite total came back in a dictionary
C1_InfiniteDictReached ==
    Returned /\ out.ret = "dict" /\ IsInf(out.loss)

\* C2: when the weighted reconstruction loss is NaN and the KL term is
\* finite, the reconstruction term is replaced by 0.0: a dictionary is
\* returned with reconstruction_loss = 0.0 and loss = kl_loss; None is
\* returned only for a NaN total.
C2_NaNReconsReplaced ==
    Returned =>
        /\ (IsNan(out.locals.raw) /\ IsFinite(out.locals.kl_loss)) =>
              /\ out.ret = "dict"
              /\ out.reconstruction_loss = Fin(0)
              /\ out.loss = out.kl_loss
              /\ out.kl_loss = out.locals.kl_loss
        /\ out.ret = "None" => IsNan(out.locals.net_loss)

\* a NaN reconstruction loss met a finite KL term
C2_Witness ==
    /\ Returned
    /\ IsNan(out.locals.raw)
    /\ IsFinite(out.locals.kl_loss)
    /\ out.locals.kl_loss # Fin(0)
    /\ out.ret = "dict"

\* C3: with loss_parameters.non_stochastic set, each composite loss has a KL
\* loss of exactly zero: kl_loss is 0 and loss equals the reconstruction
\* term.
C3_NonStochasticZeroKL ==
    (Returned /\ lp.non_stochastic) =>
        /\ out.locals.kl_loss = Fin(0)
        /\ out.ret = "dict" =>
              /\ out.kl_loss = Fin(0)
              /\ out.loss = out.reconstruction_loss

(***************************************************************************)
(* Claims about VAEAlgorithmConfig (checked under SpecConfig).             *)
(***************************************************************************)
Validated == res.status # "none"

\* C4: validation enforces the algorithm/loss pairing: musplit accepts only
\* loss musplit; denoisplit accepts denoisplit and denoisplit_musplit and
\* rejects musplit; a rejected pairing raises a validation error at
\* construction and on assignment.
C4_PairingEnforced ==
    Validated =>
        /\ (res.input.algorithm = "musplit" /\ res.input.loss # "musplit")
              => res.status = "ValidationError"
        /\ (res.input.algorithm = "denoisplit" /\ res.input.loss = "musplit")
              => res.status = "ValidationError"
        /\ (res.input.algorithm = "musplit" /\ res.input.loss = "musplit")
              => res.by # "algorithm_cross_validation"
        /\ (res.input.algorithm = "denoisplit"
               /\ res.input.loss \in {"denoisplit", "denoisplit_musplit"})
              => res.by # "algorithm_cross_validation"

\* C5: with a noise model given, validation succeeds if and only if
\* model.output_channels equals the number of per-channel noise models (the
\* other validators raising nothing); a difference is never accepted and is
\* reported as a validation error by output_channels_validation.
C5_ChannelsMatchNoiseModels ==
    (Validated /\ res.input.noise_model.given) =>
        LET c == res.input
            equal == c.output_channels = c.noise_model.n
        IN  /\ ~equal => res.status # "ok"
            /\ (~equal /\ algorithm_cross_validation(c) = "ok") =>
                  /\ res.status = "ValidationError"
                  /\ res.by = "output_channels_validation"
            /\ equal => res.by # "output_channels_validation"
            /\ (algorithm_cross_validation(c) = "ok"
                   /\ c.gaussian_predict_logvar # NoGaussian) =>
                  (res.status = "ok" <=> equal)

\* an assignment to a constructed configuration was rejected for a channel
\* count that differs from the number of noise models
C5_Witness ==
    /\ pc = "constructed"
    /\ res.status = "ValidationError"
    /\ res.by = "output_channels_validation"
    /\ res.input.output_channels # res.input.noise_model.n

\* a configuration with equal counts was accepted
C5_AcceptedReached ==
    /\ Validated
    /\ res.status = "ok"
    /\ res.input.output_channels = res.input.noise_model.n

\* C6: validation rejects every configuration whose model.predict_logvar
\* differs from gaussian_likelihood_model.predict_logvar and accepts those
\* in which they are equal.
C6_PredictLogvarMismatchRejected ==
    (Validated /\ res.input.gaussian_predict_logvar # NoGaussian) =>
        /\ res.input.predict_logvar # res.input.gaussian_predict_logvar
              => res.status # "ok"
        /\ res.input.predict_logvar = res.input.gaussian_predict_logvar
              => res.by # "predict_logvar_validation"

\* C7: algorithm musplit, loss musplit, one noise model per output channel,
\* gaussian_likelihood_model and noise_model_likelihood_model left at None:
\* the configuration validates.
C7_OptionalFieldsMayBeOmitted ==
    (/\ Validated
     /\ res.input.algorithm = "musplit"
     /\ res.input.loss = "musplit"
     /\ res.input.noise_model.given
     /\ res.input.noise_model.n = res.input.output_channels
     /\ res.input.gaussian_predict_logvar = NoGaussian
     /\ res.input.nm_likelihood = None)
        => res.status = "ok"

(***************************************************************************)
(* Claims about get_reconstruction_loss (checked under SpecRecons).        *)
(***************************************************************************)
RECURSIVE SumKept(_, _)
\* the sum of v over the index set S, in increasing index order
SumKept(v, S) ==
    IF S = {} THEN Fin(0)
    ELSE LET b == CHOOSE x \in S : \A y \in S : y <= x
         IN  FAdd(SumKept(v, S \ {b}), v[b])

\* the samples the mask of the last call keeps
Kept ==
    {b \in 1..Len(ll) : ~lp.mask.given \/ lp.mask.keep[b]}

\* C8: `loss` and every ch{i}_loss (i = 1..C) is the sum of the per-sample
\* losses the mask selects divided by the full batch size; a None mask and
\* an all-True mask both give sum(per-sample loss) / batch_size, an
\* all-False mask gives exactly 0.
C8_MaskedSumOverBatchSize ==
    (pc = "done") =>
        LET B == Len(ll)
            vec == get_reconstruction_loss_vector(ll)
        IN  /\ out.dict.loss = Scalar(FDiv(SumKept(vec.loss.v, Kept), Fin(B)))
            /\ \A i \in 1..NChannels(ll) :
                  out.dict.ch[i] = Scalar(FDiv(SumKept(vec.ch[i].v, Kept), Fin(B)))
            /\ Kept = 1..B =>
                  /\ out.dict.loss = Scalar(FDiv(FSum(vec.loss.v), Fin(B)))
                  /\ \A i \in 1..NChannels(ll) :
                        out.dict.ch[i] = Scalar(FDiv(FSum(vec.ch[i].v), Fin(B)))
            /\ Kept = {} =>
                  /\ out.dict.loss = Scalar(Fin(0))
                  /\ \A i \in 1..NChannels(ll) : out.dict.ch[i] = Scalar(Fin(0))

\* a mask that keeps some samples of a multi-channel batch and drops others
C8_Witness ==
    /\ pc = "done"
    /\ NChannels(ll) > 1
    /\ Kept # {}
    /\ Kept # 1..Len(ll)
    /\ IsFinite(out.dict.loss.v)
    /\ out.dict.loss.v # Fin(0)

\* an all-False mask over a batch holding a NaN gave exactly 0
C8_AllFalseReached ==
    /\ pc = "done"
    /\ Kept = {}
    /\ \E b \in 1..Len(ll) : IsNan(ll[b][1])
    /\ out.dict.loss = Scalar(Fin(0))

(***************************************************************************)
(* Claims about the KL utilities (checked under SpecKL).                   *)
(***************************************************************************)
FMax(x, y) == IF FLe(x, y) THEN y ELSE x

\* C9: below the tolerance eps, free_bits_kl is the plain per-layer batch
\* mean; from eps on every entry of the result is >= free_bits, the default
\* mode being the batch mean of the clamped elements and batch_average the
\* clamped batch mean.
C9_FreeBits ==
    (pc = "done" /\ out.fn = "free_bits_kl") =>
        \A l \in DOMAIN td.kl :
            LET B == Len(td.kl[l])
                total == FSum(td.kl[l])
                clamped == FSum([b \in 1..B |-> FMax(td.kl[l][b], fb.free_bits)])
            IN  IF FLt(fb.free_bits, Eps)
                THEN FMul(out.v[l], Fin(B)) = total
                ELSE /\ FLe(fb.free_bits, out.v[l])
                     /\ fb.batch_average =>
                           out.v[l] = FMax(FDiv(total, Fin(B)), fb.free_bits)
                     /\ ~fb.batch_average =>
                           FMul(out.v[l], Fin(B)) = clamped

\* the two modes give different results on this tensor, and the default
\* mode was used
C9_Witness ==
    /\ pc = "done"
    /\ out.fn = "free_bits_kl"
    /\ FLe(Eps, fb.free_bits)
    /\ ~fb.batch_average
    /\ \E l \in DOMAIN td.kl :
          out.v[l] # FMax(FMean(td.kl[l]), fb.free_bits)

\* a free_bits below the tolerance, but not 0, left the mean unclamped
C9_BelowEpsReached ==
    /\ pc = "done"
    /\ out.fn = "free_bits_kl"
    /\ fb.free_bits # Fin(0)
    /\ FLt(fb.free_bits, Eps)
    /\ \E l \in DOMAIN td.kl : FLt(out.v[l], fb.free_bits)

\* C10: get_kl_divergence_loss_denoisplit is the sum over the layers of the
\* batch mean of max(kl, 1.0), on the raw KL values, divided by
\* prod(img_shape); for a fixed KL tensor, result * prod(img_shape) is the
\* same for every image shape.
C10_KlDenoisplit ==
    (pc = "done" /\ out.fn = "get_kl_divergence_loss_denoisplit") =>
        LET layer ==
                [l \in DOMAIN td.kl |->
                    FDiv(FSum([b \in DOMAIN td.kl[l] |-> FMax(td.kl[l][b], Fin(1))]),
                         Fin(Len(td.kl[l])))]
        IN  /\ FMul(out.v, Fin(Prod(img))) = FSum(layer)
            /\ \A s \in ImgShapes :
                  FMul(get_kl_divergence_loss_denoisplit(td, s), Fin(Prod(s)))
                     = FMul(out.v, Fin(Prod(img)))

\* several layers, some KL value below the free-bits threshold 1.0, and an
\* image of more than one pixel
C10_Witness ==
    /\ pc = "done"
    /\ out.fn = "get_kl_divergence_loss_denoisplit"
    /\ Len(td.kl) > 1
    /\ Prod(img) > 1
    /\ \E l \in DOMAIN td.kl : \E b \in DOMAIN td.kl[l] : FLt(td.kl[l][b], Fin(1))

\* the top-down data with every latent's channel count and every KL value
\* multiplied by f
Rescaled(t, f) ==
    [kl |-> [l \in DOMAIN t.kl |->
                [b \in DOMAIN t.kl[l] |-> FMul(t.kl[l][b], Fin(f))]],
     zshape |-> [l \in DOMAIN t.zshape |->
                    [t.zshape[l] EXCEPT ![1] = @ * f]]]

ScaleFactors == {2, 3}

\* C11: get_kl_divergence_loss_usplit is the mean over the layers of the
\* unclamped batch mean of kl / (element count of the layer's latent);
\* multiplying every latent's element count and every KL value by the same
\* positive factor leaves the result unchanged.
C11_KlUsplit ==
    (pc = "done" /\ out.fn = "get_kl_divergence_loss_usplit") =>
        LET L == Len(td.kl)
            layer ==
                [l \in DOMAIN td.kl |->
                    FDiv(FDiv(FSum(td.kl[l]), Fin(Len(td.kl[l]))),
                         Fin(Prod(td.zshape[l])))]
        IN  /\ FMul(out.v, Fin(L)) = FSum(layer)
            /\ \A f \in ScaleFactors :
                  get_kl_divergence_loss_usplit(Rescaled(td, f)) = out.v

\* several layers with latents of different sizes, and a negative KL value
\* that a clamp would have raised
C11_Witness ==
    /\ pc = "done"
    /\ out.fn = "get_kl_divergence_loss_usplit"
    /\ Len(td.kl) > 1
    /\ Prod(td.zshape[1]) # Prod(td.zshape[2])
    /\ \E b \in DOMAIN td.kl[1] : FLt(td.kl[1][b], Fin(0))

(***************************************************************************)
(* Claims about the KL weight (C12 under SpecLoss, C13 under SpecAnneal).  *)
(***************************************************************************)
\* the loss parameters with another annealing schedule, epoch and weight
Rescheduled(p, annealing, start, annealtime, epoch, weight) ==
    [p EXCEPT !.kl_annealing = annealing, !.kl_start = start,
              !.kl_annealtime = annealtime, !.current_epoch = epoch,
              !.kl_weight = weight]

\* <<kl_start, kl_annealtime, current_epoch>>: an epoch before the window
\* opens, and one after it has closed
Schedules == {<<1, 2, 0>>, <<0, 1, MaxEpoch>>}

\* C12: in denoisplit_musplit_loss with non_stochastic unset, kl_loss =
\* kl_weight * (denoisplit_weight * denoisplit_kl + musplit_weight *
\* musplit_kl) with the configured kl_weight: whatever current_epoch,
\* kl_annealing, kl_start and kl_annealtime are, the result is the same.
C12_CombinedKlIgnoresAnnealing ==
    (Returned /\ out.fn = "denoisplit_musplit_loss" /\ ~lp.non_stochastic) =>
        LET combined ==
                FAdd(FMul(lp.denoisplit_weight,
                          get_kl_divergence_loss_denoisplit(td, img)),
                     FMul(lp.musplit_weight, get_kl_divergence_loss_usplit(td)))
        IN  /\ out.locals.kl_weight = lp.kl_weight
            /\ out.locals.kl_loss = FMul(lp.kl_weight, combined)
            /\ \A annealing \in BOOLEAN, s \in Schedules :
                  denoisplit_musplit_loss(
                      ll, llG, td, img,
                      Rescheduled(lp, annealing, s[1], s[2], s[3], Fin(2))
                  ).locals.kl_loss = FMul(Fin(2), combined)

\* the combined loss was called before the annealing window opened and its
\* KL term has the full weight
C12_Witness ==
    /\ Returned
    /\ out.fn = "denoisplit_musplit_loss"
    /\ ~lp.non_stochastic
    /\ lp.kl_annealing
    /\ lp.current_epoch < lp.kl_start
    /\ out.ret = "dict"
    /\ IsFinite(out.kl_loss)
    /\ out.kl_loss # Fin(0)

\* the last training step applied a KL weight (denoisplit_loss applies none
\* when non_stochastic is set)
Weighted(o) == o.locals.kl_weight # Unbound

\* the weight of the step just taken, at the current epoch
WeightOfEpoch ==
    (pc = "stepped" /\ Weighted(out)) =>
        LET w == out.locals.kl_weight
            e == lp.current_epoch
        IN  /\ ~lp.kl_annealing => w = lp.kl_weight
            /\ lp.kl_annealing =>
                  /\ e < lp.kl_start => w = Fin(0)
                  /\ FLe(w, lp.kl_weight)
                  /\ e >= lp.kl_start + lp.kl_annealtime => w = lp.kl_weight

\* from one training step to the next the weight does not decrease
WeightNeverDecreases ==
    (Weighted(out) /\ Weighted(out')) =>
        FLe(out.locals.kl_weight, out'.locals.kl_weight)

C13_FullWeightReached ==
    /\ pc = "stepped"
    /\ Weighted(out)
    /\ lp.kl_annealing
    /\ lp.current_epoch = lp.kl_start + lp.kl_annealtime
    /\ out.locals.kl_weight = lp.kl_weight
    /\ out.kl_loss = FMul(lp.kl_weight, get_kl_divergence_loss_usplit(td))

(***************************************************************************)
(* Claims about the prediction utilities (checked under SpecPredict).      *)
(***************************************************************************)
InMmse == call.status # "none" /\ call.fn = "lvae_predict_mmse"

\* the predictions of the forward passes made so far, in the order made
PredictionsOf(m) == [k \in 1..Len(m.calls) |-> m.calls[k].prediction]

\* the buffer holds the k-th forward pass at index k and the log-variance is
\* that of the first pass; the returned value is built from them
MmseBuffer ==
    (InMmse /\ call.status \in {"running", "returned"}) =>
        /\ Len(model.calls) = call.mmse_idx
        /\ call.mmse_idx <= call.mmse_count
        /\ \A k \in 1..call.mmse_count :
              call.sample_predictions[k] =
                 IF k <= call.mmse_idx THEN model.calls[k].prediction ELSE Fin(0)
        /\ call.mmse_idx >= 1 => call.log_var = model.calls[1].log_var
        /\ call.status = "returned" =>
              /\ Len(model.calls) = call.mmse_count
              /\ call.ret = ReturnValue(
                                FDiv(FSum(PredictionsOf(model)), Fin(call.mmse_count)),
                                model.calls[1].log_var,
                                Unpack(call.input).aux)

\* a step of the loop makes exactly one forward pass, for the next index
MmseOneByOne ==
    (pc = "mmse" /\ model' # model) =>
        /\ Len(model'.calls) = Len(model.calls) + 1
        /\ call'.mmse_idx = call.mmse_idx + 1
        /\ SubSeq(model'.calls, 1, Len(model.calls)) = model.calls

\* C14: lvae_predict_mmse with mmse_count = n >= 1 calls the model exactly n
\* times, one after another in index order, storing the k-th prediction at
\* buffer index k; it returns the mean of the n samples and the
\* log-variance of call 0, which no later call overwrites.
C14_MmseSequential == [](MmseBuffer) /\ [][MmseOneByOne]_vars

\* an MMSE prediction over several samples returned, the samples and their
\* log-variances not all equal
C14_Witness ==
    /\ InMmse
    /\ call.status = "returned"
    /\ call.mmse_count >= 2
    /\ model.calls[2].prediction # model.calls[1].prediction
    /\ model.calls[call.mmse_count].log_var # model.calls[1].log_var
    /\ model.calls[1].log_var # NoLogVar

\* what lvae_predict_single_sample returns for an input when its forward
\* pass yields o
SingleSampleReturn(input, o) ==
    ReturnValue(o.prediction, o.log_var, Unpack(input).aux)

\* C15: lvae_predict_mmse with mmse_count = 1 returns the same prediction,
\* the same log-variance and the same container structure as
\* lvae_predict_single_sample does when the single forward pass yields the
\* same model output; both leave the model in eval mode after that one pass.
C15_MmseOneIsSingleSample ==
    /\ (InMmse /\ call.status = "returned" /\ call.mmse_count = 1) =>
          /\ Len(model.calls) = 1
          /\ call.ret = SingleSampleReturn(call.input, model.calls[1])
          /\ ~model.training
    /\ (call.status = "returned" /\ call.fn = "lvae_predict_single_sample") =>
          /\ Len(model.calls) = 1
          /\ call.ret = SingleSampleReturn(call.input, model.calls[1])
          /\ ~model.training

\* an MMSE prediction of one sample returned for a tuple input with
\* auxiliary items and a log-variance
C15_Witness ==
    /\ InMmse
    /\ call.status = "returned"
    /\ call.mmse_count = 1
    /\ Len(Unpack(call.input).aux) = 2
    /\ model.calls[1].log_var # NoLogVar
    /\ call.ret.prediction.items[1] = Fin(2)

\* the same for a bare tensor and a model without log-variance
C15_BareReached ==
    /\ InMmse
    /\ call.status = "returned"
    /\ call.mmse_count = 1
    /\ call.input = Bare(TensorX)
    /\ call.ret.log_var = Bare(NoLogVar)

\* the call raised exactly in the cases named
RaisesValueError ==
    call.status # "none" =>
        /\ (call.fn = "lvae_predict_mmse" /\ call.mmse_count <= 0)
              => call.status = "ValueError"
        /\ call.input.kind \notin {"tensor", "tuple"}
              => call.status = "ValueError"
        /\ call.status = "ValueError" =>
              /\ model.calls = << >>
              /\ pc = "done"

\* a call that raises leaves the model as it found it
RaiseLeavesModel ==
    call'.status = "ValueError" => model' = model

\* C16: lvae_predict_mmse raises ValueError when mmse_count <= 0, and both
\* functions raise ValueError when the input is neither a tensor nor a
\* tuple; the error is raised before the model is touched: no forward pass
\* is executed and the model's train/eval mode is unchanged.
C16_InvalidArguments == [](RaisesValueError) /\ [][RaiseLeavesModel]_vars

\* a model in train mode was handed a valid input and mmse_count = 0: the
\* call raised and the model is still in train mode
C16_Witness ==
    /\ InMmse
    /\ call.status = "ValueError"
    /\ call.mmse_count = 0
    /\ call.input.kind = "tuple"
    /\ Len(call.input.items) > 1
    /\ model.training
    /\ model.calls = << >>

\* lvae_predict_single_sample raised on an unknown input type
C16_SingleSampleRaised ==
    /\ call.status = "ValueError"
    /\ call.fn = "lvae_predict_single_sample"
    /\ call.input = OtherInput
    /\ model.training

\* the log-variance of the first forward pass of the call
FirstLogVar == model.calls[1].log_var

\* C17: both functions return their result in the kind of container they
\* received: a bare tensor yields a bare (prediction, log_variance) pair; a
\* tuple (x, a1, ..., ak) of any length yields (pred, a1, ..., ak) and
\* (log_var, a1, ..., ak), the metadata unchanged and in order.
C17_SameContainer ==
    call.status = "returned" =>
        LET aux == Unpack(call.input).aux
            pred == call.ret.prediction.items[1]
        IN  /\ call.input.kind = "tensor" =>
                  /\ call.ret.prediction = Bare(pred)
                  /\ call.ret.log_var = Bare(FirstLogVar)
            /\ call.input.kind = "tuple" =>
                  /\ call.ret.prediction = Tuple(<<pred>> \o aux)
                  /\ call.ret.log_var = Tuple(<<FirstLogVar>> \o aux)

\* a tuple holding only the tensor came back as a bare prediction
C17_OneTupleUnwrapped ==
    /\ call.status = "returned"
    /\ call.input = Tuple(<<TensorX>>)
    /\ call.ret.prediction.kind = "tensor"
    /\ FirstLogVar # NoLogVar

\* a tuple with metadata came back with the metadata on both outputs
C17_MetadataAttached ==
    /\ call.status = "returned"
    /\ call.input = Tuple(<<TensorX, Aux(2), Aux(1)>>)
    /\ call.ret.prediction.items = <<Fin(1), Aux(2), Aux(1)>>
    /\ call.ret.log_var = Tuple(<<Fin(-2), Aux(2), Aux(1)>>)

(***************************************************************************)
(* Claims about padding and cropping (checked under SpecPadCrop).          *)
(***************************************************************************)
\* C18: for every tensor x and every target size S >= x's size in each
\* spatial dimension, the padded tensor has spatial size exactly S, with
\* floor(d/2) zeros added before and d - floor(d/2) after along each
\* dimension, and cropping it to the original size gives x back exactly.
C18_PadThenCrop ==
    /\ (call.status = "returned" /\ call.fn = "pad_img_tensor"
           /\ Len(call.size) = Len(arg.shape)
           /\ \A i \in 1..Len(call.size) : call.size[i] >= arg.shape[i]) =>
          /\ out.status = "ok"
          /\ out.tensor.shape = call.size
          /\ \A c \in Coords(call.size) :
                LET n == Len(call.size)
                    lo == [i \in 1..n |-> (call.size[i] - arg.shape[i]) \div 2]
                    inside == \A i \in 1..n :
                                 c[i] > lo[i] /\ c[i] <= lo[i] + arg.shape[i]
                IN  out.tensor.data[c] =
                       IF inside THEN arg.data[[i \in 1..n |-> c[i] - lo[i]]]
                       ELSE 0
    /\ pc = "cropped back" =>
          /\ out.status = "ok"
          /\ out.tensor = arg

\* a 3D tensor padded by an odd amount in one dimension and an even one in
\* another was cropped back
C18_Witness ==
    /\ pc = "cropped back"
    /\ Len(arg.shape) = 3
    /\ call.t.shape[2] - arg.shape[2] = 1
    /\ call.t.shape[3] - arg.shape[3] = 2
    /\ arg.shape[3] = 2
    /\ out.tensor = arg

Smaller(size, shape) == \E i \in 1..Len(size) : size[i] < shape[i]

Larger(size, shape) == \E i \in 1..Len(size) : size[i] > shape[i]

\* C19: pad_img_tensor raises ValueError when the target is smaller than
\* the current size in any spatial dimension, crop_img_tensor when it is
\* larger in any; a mixed request is rejected by both, and a call that
\* raises returns no tensor.
C19_PadCropRejects ==
    (call.status = "returned" /\ Len(call.size) = Len(call.t.shape)) =>
        /\ (call.fn = "pad_img_tensor" /\ Smaller(call.size, call.t.shape))
              => out = [status |-> "ValueError"]
        /\ (call.fn = "crop_img_tensor" /\ Larger(call.size, call.t.shape))
              => out = [status |-> "ValueError"]
        /\ (Smaller(call.size, call.t.shape) /\ Larger(call.size, call.t.shape)) =>
              /\ pad_img_tensor(call.t, call.size) = [status |-> "ValueError"]
              /\ crop_img_tensor(call.t, call.size) = [status |-> "ValueError"]
        /\ out.status = "ValueError" =>
              IF call.fn = "pad_img_tensor"
              THEN Smaller(call.size, call.t.shape)
              ELSE Larger(call.size, call.t.shape)

\* a pad to a size larger in one dimension and smaller in another raised
C19_Witness ==
    /\ call.status = "returned"
    /\ call.fn = "pad_img_tensor"
    /\ Len(call.size) = Len(call.t.shape)
    /\ Smaller(call.size, call.t.shape)
    /\ Larger(call.size, call.t.shape)
    /\ out.status = "ValueError"

\* a crop to a size larger in one dimension only raised
C19_CropRaised ==
    /\ call.status = "returned"
    /\ call.fn = "crop_img_tensor"
    /\ Len(call.size) = Len(call.t.shape)
    /\ Larger(call.size, call.t.shape)
    /\ ~Smaller(call.size, call.t.shape)
    /\ out.status = "ValueError"

(***************************************************************************)
(* Claims about StableExponential and StableLogVar (under SpecStable).     *)
(*                                                                         *)
(* Logarithms are compared through fractions that enclose them: for z >= 1 *)
(*    2 (z - 1) / (z + 1)  <=  ln z  <=  (z^2 - 1) / (2 z)                 *)
(* with z rounded down, or up, to a multiple of 1/64 first.                *)
(***************************************************************************)
\* the relative tolerance of the round trip, 1e-5
Tol == Frac(1, 100000)

LnLo(z) ==
    LET k == (z.n * 64) \div z.d
    IN  Frac(2 * (k - 64), k + 64)

LnHi(z) ==
    LET k == (z.n * 64 + z.d - 1) \div z.d
    IN  Frac(k * k - 4096, 128 * k)

\* y = ln z is further from the positive fraction v than the tolerance allows
SurelyBeyond(y, v) ==
    /\ v.t = "fin" /\ v.n > 0
    /\ y.t = "ln" /\ y.n >= y.d
    /\ \/ FLt(LnHi(Frac(y.n, y.d)), FMul(v, FAdd(Fin(1), FNeg(Tol))))
       \/ FLt(FMul(v, FAdd(Fin(1), Tol)), LnLo(Frac(y.n, y.d)))

\* y = ln p is within the tolerance of v = ln q, for fractions q <= p < 1:
\* ln p - ln q <= p / q - 1, and |ln q| >= LnLo(1 / q)
SurelyWithin(y, v) ==
    /\ v.t = "ln" /\ v.n < v.d
    /\ y.t = "ln" /\ y.n < y.d
    /\ LET q == Frac(v.n, v.d)
           r == Frac(y.n, y.d)
       IN  /\ FLe(q, r)
           /\ FLe(FDiv(FAdd(r, FNeg(q)), q), FMul(Tol, LnLo(FDiv(Fin(1), q))))

Stabilized == call.status = "returned" /\ call.fn = "StableLogVar.get" /\ call.enable_stable

C21_UpdateAtomic == [][res'.status = "ValueError" => cfg' = cfg]_vars

\* The fields written by a rejected update stay in the configuration, which
\* is then one that validation refuses.
C21_InvalidObservable == res.status = "ValueError" /\ model_validate(cfg) # "ok"

Paired(means, stds) ==
    \/ ~means.some /\ ~stds.some
    \/ means.some /\ stds.some /\ Len(means.v) = Len(stds.v)

\* C22: after construction or a successful set_means_and_stds, image_means
\* and image_stds are both None or both lists of one length, and so are
\* target_means and target_stds.
C22_BothOrNeither ==
    res.status = "ok" /\ res.fn \in {"__init__", "set_means_and_stds"}
        => /\ Paired(cfg.image_means, cfg.image_stds)
           /\ Paired(cfg.target_means, cfg.target_stds)

\* An empty list is accepted next to None.
C22_EmptyWithNone ==
    /\ res.status = "ok" /\ res.fn = "set_means_and_stds"
    /\ cfg.image_means = List(<< >>) /\ cfg.image_stds = NoList

\* With non-empty lists validation does pair the fields.
C22_NonEmptyPaired ==
    res.status = "ok" /\ (Truthy(cfg.image_means) \/ Truthy(cfg.image_stds))
        => Paired(cfg.image_means, cfg.image_stds)


(***************************************************************************)
(* Claims about PredictionWriterCallback (checked under SpecWriter).       *)
(***************************************************************************)

\* C23: on every exit from `with writing_predictions(flag)`, normal or by an
\* exception, the toggle is back to the value it had before the (outermost
\* exited) block was entered.
C23_RestoredOnEveryExit ==
    [][Len(call') < Len(call)
          => model'.writing = call[Len(call') + 1].previous_value]_vars

\* Inside the block the toggle is the flag, and a block left normally
\* restores the value saved on entry, innermost block first.
C23_RestoredOnNormalExit ==
    [][/\ out'.fn = "writing_predictions" /\ out'.outcome = "exited"
             => /\ Len(call') = Len(call) - 1
                /\ model'.writing = call[Len(call)].previous_value
       /\ out'.fn = "writing_predictions" /\ out'.outcome = "entered"
             => /\ call' = Append(call, [previous_value |-> model.writing])
                /\ model'.writing = out'.writing]_vars


\* C30: the write strategy is invoked only while writing is enabled and the
\* dataset is an iterable prediction dataset (a disabled callback returns,
\* an invalid dataset raises TypeError), and whenever it is invoked setup
\* has already made the output directory.
C30_WritesOnlyIntoMadeDirectory ==
    out.fn = "write_on_batch_end"
        => /\ out.outcome = "written"
                => out.writing /\ out.dataset \in ValidPredDatasets /\ out.dir
           /\ ~out.writing => out.outcome = "returned"
           /\ out.writing /\ out.dataset \notin ValidPredDatasets
                => out.outcome = "TypeError"

\* The two guards of write_on_batch_end by themselves hold.
C30_WriteGuards ==
    out.fn = "write_on_batch_end"
        => /\ out.outcome = "written"
                <=> out.writing /\ out.dataset \in ValidPredDatasets
           /\ out.outcome = "returned" <=> ~out.writing

\* The write strategy invoked although setup made no directory.
C30_WrittenWithoutDirectory ==
    /\ out.fn = "write_on_batch_end" /\ out.outcome = "written" /\ ~out.dir
    /\ model.stage = "predict"


(***************************************************************************)
(* Claims about reconstruction_loss_musplit_denoisplit (under SpecMix).    *)
(***************************************************************************)
MixMean(l) ==
    FDiv(FSum([b \in DOMAIN l |-> FSum(l[b])]), Fin(Len(l) * Len(l[1])))

\* C24: the result is nm_weight * (-mean noise-model log-likelihood) +
\* gaussian_weight * (-mean Gaussian log-likelihood); the noise-model
\* likelihood is handed the first half of the channels when the prediction
\* has exactly twice the target's channels and all of them otherwise, and
\* the Gaussian likelihood is handed the full prediction in both cases.
C24_MixedReconstruction ==
    call.status = "returned"
        => /\ out.v = FAdd(FMul(lp.nm_weight, FNeg(MixMean(ll))),
                           FMul(lp.gaussian_weight, FNeg(MixMean(llG))))
           /\ call.gaussian_likelihood = arg
           /\ \A b \in DOMAIN arg :
                 call.nm_likelihood[b] =
                    IF Len(arg[b]) = 2 * img
                    THEN [c \in 1..img |-> Channel(b, c)]
                    ELSE arg[b]

C24_Witness ==
    /\ call.status = "returned"
    /\ Len(arg[1]) = 2 * img
    /\ Len(call.nm_likelihood[1]) = img
    /\ Len(call.gaussian_likelihood[1]) = 2 * img
    /\ IsFinite(out.v) /\ out.v # Fin(0)

C24_AllChannelsReached ==
    /\ call.status = "returned"
    /\ Len(arg[1]) # 2 * img
    /\ call.nm_likelihood = arg


(***************************************************************************)
(* Claims about get_logger (checked under SpecLogger).                     *)
(***************************************************************************)
Configured(logger) ==
    /\ Len(logger.handlers) \in {1, 2}
    /\ logger.handlers[1].kind = "StreamHandler"
    /\ Len(logger.handlers) = 2 => logger.handlers[2].kind = "FileHandler"
    /\ \A i \in DOMAIN logger.handlers : logger.handlers[i].level = logger.level
    /\ logger.level \in LogLevels
    /\ ~logger.propagate

\* C25: after any sequence of get_logger calls every name that was
\* requested has been configured exactly once.
C25_EveryRequestedConfigured ==
    \A name \in call : Configured(model[name])

HasKnownPrefix(name) ==
    \E k \in 1..Len(name) : SubSeq(name, 1, k) \in cfg

\* C25 as the code has it: a logger is configured at most once, by the
\* first call for a name of which no prefix (the name itself included) was
\* configured before; every other call, whatever its level and path,
\* changes no logger.  A requested name is therefore configured or has a
\* configured prefix, and a name requested after one of its prefixes stays
\* as logging.getLogger made it.
C25_ConfiguredAtMostOnce ==
    /\ [](/\ \A name \in LoggerNames :
               IF name \in cfg THEN Configured(model[name])
               ELSE model[name] = NewLogger
          /\ \A name \in call : HasKnownPrefix(name)
          /\ cfg \subseteq call)
    /\ [][IF HasKnownPrefix(out'.name)
          THEN model' = model /\ cfg' = cfg
          ELSE /\ cfg' = cfg \cup {out'.name}
               /\ \A name \in LoggerNames \ {out'.name} :
                     model'[name] = model[name]
               /\ model'[out'.name].level = out'.log_level
               /\ Len(model'[out'.name].handlers)
                     = IF out'.log_path = None THEN 1 ELSE 2]_vars

\* <<"a", "b">> requested after <<"a">>: returned as it was created
C25_Witness ==
    /\ out.status = "returned" /\ out.name = <<"a", "b">>
    /\ cfg = {<<"a">>}
    /\ model[<<"a", "b">>] = NewLogger
    /\ Len(model[<<"a">>].handlers) = 2

\* the other order configures both
C25_BothConfigured ==
    /\ out.status = "returned" /\ out.name = <<"a">>
    /\ cfg = {<<"a">>, <<"a", "b">>}


(***************************************************************************)
(* Claims about InMemoryDataset.split_dataset (under SpecDataset).         *)
(***************************************************************************)
Range(s) == {s[i] : i \in DOMAIN s}

\* r is round(N * a / d): the nearest integer, the even one at a tie
IsRounded(r, N, a, d) ==
    LET diff == Abs(r * d - N * a)
    IN  /\ 2 * diff <= d
        /\ 2 * diff = d => r % 2 = 0

TargetsFollow(ds, supervised) ==
    IF supervised
    THEN /\ ds.data_targets.given
         /\ ds.data_targets.v = [i \in DOMAIN ds.data |-> TargetOf(ds.data[i])]
    ELSE ds.data_targets = NoTargets

\* C26: split_dataset partitions the patches: of the N patches before the
\* call the returned dataset holds n = max(round(N * percentage),
\* minimum_patches) distinct ones, the original keeps the other N - n, none
\* is in both, and the targets are split with the same indices; a
\* percentage outside [0, 1] or a minimum outside [1, N] raises ValueError
\* and leaves the dataset unchanged.
C26_SplitPartitions ==
    call.status = "returned"
        => LET N == Len(call.before.data)
               p == call.percentage
               m == call.minimum_patches
               val == out.dataset
           IN  IF p.n < 0 \/ p.n > p.d \/ m < 1 \/ m > N
               THEN out.status = "ValueError" /\ model = call.before
               ELSE /\ out.status = "ok"
                    /\ \E r \in 0..N :
                          /\ IsRounded(r, N, p.n, p.d)
                          /\ Len(val.data) = IF r >= m THEN r ELSE m
                    /\ Cardinality(Range(val.data)) = Len(val.data)
                    /\ Len(model.data) + Len(val.data) = N
                    /\ Range(model.data) \cap Range(val.data) = {}
                    /\ Range(model.data) \cup Range(val.data)
                          = Range(call.before.data)
                    /\ TargetsFollow(val, call.before.data_targets.given)
                    /\ TargetsFollow(model, call.before.data_targets.given)

\* a split that took the minimum, of a dataset with targets
C26_Witness ==
    /\ call.status = "returned" /\ out.status = "ok"
    /\ call.before.data_targets.given
    /\ Len(call.before.data) = 3
    /\ call.percentage = Frac(1, 4) /\ call.minimum_patches = 2
    /\ out.dataset.data = <<3, 1>>
    /\ model.data = <<2>>
    /\ model.data_targets.v = <<TargetOf(2)>>

\* a tie rounded to the even count: 4 * 5/8 = 2.5 gives 2 patches
C26_TieReached ==
    /\ call.status = "returned" /\ out.status = "ok"
    /\ Len(call.before.data) = 4 /\ call.percentage = Frac(5, 8)
    /\ call.minimum_patches = 1
    /\ Len(out.dataset.data) = 2

C26_Rejected ==
    /\ call.status = "returned" /\ out.status = "ValueError"
    /\ Len(model.data) = 2 /\ call.minimum_patches = 3


(***************************************************************************)
(* Claims about the data modules (checked under SpecModule).               *)
(***************************************************************************)
InputTypeRule ==
    /\ cfg.data_type = "tiff"
          => (out.status = "ValueError" <=> arg.data \notin {"Path", "str"})
    /\ cfg.data_type = "array"
          => (out.status = "ValueError" <=> arg.data # "ndarray")

\* C27: CAREamicsClay applies the input-type rule of CAREamicsWood: with
\* data_type tiff ValueError is raised exactly when the data argument is
\* neither a Path nor a str, with data_type array exactly when it is not a
\* numpy array.
C27_ClayInputTypeRule == out.cls = "CAREamicsClay" => InputTypeRule

\* CAREamicsWood does apply the rule to arguments of at most two types.
C27_WoodInputTypeRule ==
    out.cls = "CAREamicsWood" /\ ~MixedTypes(arg) => InputTypeRule

\* CAREamicsClay refusing a Path for tiff data
C27_ClayRejectsPath ==
    /\ out.cls = "CAREamicsClay" /\ cfg.data_type = "tiff"
    /\ arg.data = "Path" /\ out.status = "ValueError"


(***************************************************************************)
(* The keys of the reconstruction dictionary (checked under SpecRecons).   *)
(***************************************************************************)

\* C28: for every channel count and every mask, `loss` and every
\* `ch{i}_loss` key of the dictionary get_reconstruction_loss returns is a
\* scalar, the masked sum of the per-sample vector divided by the batch
\* size; no entry is left as a per-sample vector.
C28_EveryKeyReduced ==
    (pc = "done") =>
        LET B == Len(ll)
            vec == get_reconstruction_loss_vector(ll)
        IN  /\ out.dict.loss = Scalar(FDiv(SumKept(vec.loss.v, Kept), Fin(B)))
            /\ \A i \in DOMAIN out.dict.ch :
                  out.dict.ch[i] = Scalar(FDiv(SumKept(vec.ch[i].v, Kept), Fin(B)))

\* a single-channel target whose ch2_loss is the unmasked per-sample vector
\* although the mask drops a sample
C28_Ch2LeftAsVector ==
    /\ pc = "done"
    /\ NChannels(ll) = 1
    /\ DOMAIN out.dict.ch = 1..2
    /\ out.dict.ch[1].kind = "scalar"
    /\ out.dict.ch[2] = Vector(BatchMeanNeg(ll))
    /\ Kept # 1..Len(ll)


(***************************************************************************)
(* Claims about the inputs of the loss engine (checked under SpecFrame).   *)
(***************************************************************************)

\* C29: the KL functions and the composite losses leave the top-down data,
\* the predictions' likelihoods, the targets' shape and the loss parameters
\* as the forward pass produced them, so every call returns what it returns
\* on the untouched inputs; and the denoisplit KL and the usplit KL of the
\* same top-down data have the same values whichever is computed first.
C29_InputsUnchanged ==
    /\ td = model.td /\ ll = model.ll /\ llG = model.llG
    /\ img = model.img /\ lp = model.lp
    /\ call.status = "returned" =>
          /\ call.fn = "get_kl_divergence_loss_usplit"
                => out.v = get_kl_divergence_loss_usplit(model.td)
          /\ call.fn = "get_kl_divergence_loss_denoisplit"
                => out.v = get_kl_divergence_loss_denoisplit(model.td, model.img)
          /\ call.fn = "musplit_loss"
                => out.v = musplit_loss(model.ll, model.td, model.lp)
          /\ call.fn = "denoisplit_loss"
                => out.v = denoisplit_loss(model.ll, model.td, model.img, model.lp)
          /\ call.fn = "denoisplit_musplit_loss"
                => out.v = denoisplit_musplit_loss(model.ll, model.llG, model.td,
                                                   model.img, model.lp)
    /\ LET d1 == DenoisplitKl(td, img)
           u1 == UsplitKl(d1.td)
           u2 == UsplitKl(td)
           d2 == DenoisplitKl(u2.td, img)
       IN  d1.v = d2.v /\ u1.v = u2.v

\* the usplit KL has normalised two layers by factors other than 1, alone
\* and inside the combined loss, and the denoisplit KL was computed after it
C29_Witness ==
    /\ call.status = "returned"
    /\ call.fn = "get_kl_divergence_loss_denoisplit"
    /\ {"get_kl_divergence_loss_usplit", "denoisplit_musplit_loss"} \subseteq arg
    /\ ~lp.non_stochastic
    /\ Len(td.kl) = 2
    /\ td.kl[1][1] = Fin(6)
    /\ UsplitKl(td).v # FMean([l \in 1..2 |-> FMean(td.kl[l])])
    /\ out.v = get_kl_divergence_loss_denoisplit(model.td, model.img)

=============================================================================
